---- MODULE Spec2Model ----
(***************************************************************************)
(* Model of openshift-sts-wrapper: the completion detector, the eleven     *)
(* installation steps and the install pipeline (runInstall).               *)
(*                                                                         *)
(* The filesystem is the record fs.  One release (version/architecture     *)
(* key) and one cluster name are tracked; every path the code inspects or  *)
(* writes for them is one field of fs.                                     *)
(***************************************************************************)
EXTENDS Integers, Sequences, FiniteSets, TLC

VARIABLES
    fs,        \* the filesystem (record, see EmptyFS)
    cfg,       \* the merged Configuration of the current invocation
    pc,        \* position of the current invocation
    stepNum,   \* runInstall: index into allSteps of the step to process next
    summary,   \* errors.Summary: sequence of records
    executed,  \* sequence of step numbers whose Execute was invoked, in order
    outcome,   \* per step: what the loop body of runInstall did with it
    exitCode,  \* process exit status: -1 while running
    resumeAt,  \* 0 in a first invocation; k in a re-invocation of install
               \* after a run whose step k failed
    lastCalls, \* the external commands the most recent Execute ran, in order
    sources,   \* loadConfig: what the environment, the file and the flags hold
    runs,      \* concurrent install runs: per run its position and record
    owner,     \* concurrent install runs: which run wrote the shared files
    cleanup,   \* runCleanup: the region in use and what the operator answered
    events     \* runInstall: the lifecycle events logged so far, in order

vars == <<fs, cfg, pc, stepNum, summary, executed, outcome, exitCode, resumeAt,
          lastCalls, sources, runs, owner, cleanup, events>>

\* the values of the variables of the scenarios that are not running
Idle == "idle"

idleVars == <<sources, runs, owner, cleanup>>

-----------------------------------------------------------------------------
(* Bounds                                                                  *)

\* largest value of --start-from-step that is enumerated (steps are 1..11)
MaxStartFrom == 12
\* longest file content (in symbols) that is enumerated
MaxContentLen == 3

-----------------------------------------------------------------------------
(* Program constants                                                       *)

NumSteps == 11

Steps == 1..NumSteps

\* File contents are strings over a small alphabet: "c" abbreviates the text
\* `credentialsMode: ' and "M" the text `Manual'.
Alphabet == {"c", "M"}

\* the marker substring "credentialsMode: Manual" of detector step 5
Needle == <<"c", "M">>

\* a file held with its content: missing, or present with a string; a present
\* file may be one that os.Stat finds and os.ReadFile cannot read
NoFile == [exists |-> FALSE, readable |-> FALSE, data |-> <<>>]

File(s) == [exists |-> TRUE, readable |-> TRUE, data |-> s]

\* the content of an unreadable file is not observed and is not held
UnreadableFile == [exists |-> TRUE, readable |-> FALSE, data |-> <<>>]

\* a file held by the one value it can store
Absent == "absent"

RECURSIVE StringsUpTo(_)
StringsUpTo(k) ==
    IF k = 0 THEN {<<>>}
    ELSE LET shorter == StringsUpTo(k - 1)
         IN  shorter \cup {Append(s, a) : s \in {t \in shorter : Len(t) = k - 1}, a \in Alphabet}

Contents == StringsUpTo(MaxContentLen)

\* a directory is absent, exists without entries, exists with entries, or
\* exists with entries and cannot be listed (os.ReadDir fails)
DirStates == {"absent", "empty", "files", "unreadable"}

GoodImage == "quay.io/test:4.12.0-x86_64"
BadImage == "not-a-release"
ClusterName == "demo"

-----------------------------------------------------------------------------
(* The filesystem                                                          *)

\* Nothing on disk.  Fields, with <v> the version/architecture key and <c>
\* the cluster name:
\*   sharedCredreqs    artifacts/shared/<v>/credreqs           (directory)
\*   sharedInstall     artifacts/shared/<v>/bin/openshift-install  (file)
\*   sharedCcoctl      artifacts/shared/<v>/bin/ccoctl             (file)
\*   credreqs          artifacts/<v>/credreqs                  (directory)
\*   binDir            artifacts/<v>/bin                       (directory)
\*   binInstall        artifacts/<v>/bin/openshift-install     (file)
\*   binCcoctl         artifacts/<v>/bin/ccoctl                (file)
\*   cwdCcoctl         ./ccoctl                                (file)
\*   versionConfig     artifacts/<v>/install-config.yaml       (content)
\*   versionManifests  artifacts/<v>/manifests                 (directory)
\*   clusterDir        artifacts/clusters/<c>                  (directory)
\*   installConfig     artifacts/clusters/<c>/install-config.yaml (content)
\*   backup            artifacts/clusters/<c>/install-config.yaml.backup
\*   ccoManifests      artifacts/clusters/<c>/ccoctl-output/manifests
\*   ccoTls            artifacts/clusters/<c>/ccoctl-output/tls
\*   manifests         artifacts/clusters/<c>/manifests
\*   tls               artifacts/clusters/<c>/tls
\*   kubeconfig        artifacts/clusters/<c>/auth/kubeconfig  (file)
\*   installMetadata   artifacts/clusters/<c>/install-metadata.json
\*   metadata          artifacts/clusters/<c>/metadata.json (its aws.region)
\*   stateFile         artifacts/clusters/<c>/.openshift_install_state.json
EmptyFS ==
    [sharedCredreqs |-> "absent", sharedInstall |-> FALSE, sharedCcoctl |-> FALSE,
     credreqs |-> "absent", binDir |-> FALSE, binInstall |-> FALSE,
     binCcoctl |-> FALSE, cwdCcoctl |-> FALSE,
     versionConfig |-> NoFile, versionManifests |-> "absent",
     clusterDir |-> FALSE, installConfig |-> NoFile, backup |-> NoFile,
     ccoManifests |-> "absent", ccoTls |-> "absent",
     manifests |-> "absent", tls |-> "absent",
     kubeconfig |-> FALSE, installMetadata |-> Absent,
     metadata |-> Absent, stateFile |-> FALSE]

\* what can be at the path of a destination directory besides DirStates: a
\* file ("notdir": os.MkdirAll fails), a directory in which no file can be
\* created ("readonly": os.Create fails), a directory on a device without
\* space ("full": the file is created, io.Copy fails)
UnwritableStates == {"notdir", "readonly", "full"}

\* os.Stat succeeds, the path is a directory and os.ReadDir returns an
\* entry; "locked" is a directory whose entries are listed and whose files
\* cannot be opened (os.Open fails)
DirExistsWithFiles(d) == d \in {"files", "locked"}

\* os.Stat succeeds and the path is not a directory (file held as a flag)
FileExists(present) == present

\* the same for a file held with its content
ContentExists(file) == file.exists

\* os.Stat succeeds and the path is a directory
DirExists(present) == present

containsSubstring(haystack, needle) ==
    \E i \in 0..(Len(haystack) - Len(needle)) :
        SubSeq(haystack, i + 1, i + Len(needle)) = needle

contains(haystack, needle) ==
    /\ Len(haystack) > 0
    /\ Len(needle) > 0
    /\ haystack # needle
    /\ \/ haystack = needle
       \/ /\ Len(haystack) > Len(needle)
          /\ \/ SubSeq(haystack, 1, Len(needle)) = needle
             \/ SubSeq(haystack, Len(haystack) - Len(needle) + 1, Len(haystack)) = needle
             \/ containsSubstring(haystack, needle)

\* os.ReadFile fails on a missing or unreadable file: false
FileContains(file, needle) ==
    IF ~file.exists \/ ~file.readable THEN FALSE ELSE contains(file.data, needle)

-----------------------------------------------------------------------------
(* Configuration                                                           *)

\* util.ExtractVersionArch: the tag of the release image, or an error
VersionArchOf(image) ==
    IF image = GoodImage THEN "4.12.0-x86_64" ELSE ""

ExtractVersionArchFails(image) == image # GoodImage

-----------------------------------------------------------------------------
(* CompletionDetector                                                      *)

\* variant of StepEvidence: steps 8 and 9 test presence like step 6, and step
\* 10 falls through to the test of step 9
StepEvidence_Uninverted(f, n) ==
    CASE n = 1 -> DirExistsWithFiles(f.sharedCredreqs)
      [] n = 2 -> FileExists(f.sharedInstall)
      [] n = 3 -> FileExists(f.sharedCcoctl)
      [] n = 4 -> ContentExists(f.installConfig)
      [] n = 5 -> FileContains(f.installConfig, Needle)
      [] n = 6 -> DirExistsWithFiles(f.ccoManifests)
      [] n = 7 -> DirExistsWithFiles(f.ccoManifests) /\ DirExistsWithFiles(f.ccoTls)
      [] n = 8 -> DirExistsWithFiles(f.ccoManifests)
      [] n = 9 -> DirExistsWithFiles(f.ccoTls)
      [] n = 10 -> DirExistsWithFiles(f.ccoTls)
      [] OTHER -> FALSE

\* the switch of ShouldSkipStep: evidence on disk that the step completed
StepEvidence(f, n) ==
    CASE n = 1 -> DirExistsWithFiles(f.sharedCredreqs)
      [] n = 2 -> FileExists(f.sharedInstall)
      [] n = 3 -> FileExists(f.sharedCcoctl)
      [] n = 4 -> ContentExists(f.installConfig)
      [] n = 5 -> FileContains(f.installConfig, Needle)
      [] n = 6 -> DirExistsWithFiles(f.ccoManifests)
      [] n = 7 -> DirExistsWithFiles(f.ccoManifests) /\ DirExistsWithFiles(f.ccoTls)
      [] n = 8 -> ~DirExistsWithFiles(f.ccoManifests)
      [] n = 9 -> ~DirExistsWithFiles(f.ccoTls)
      [] n = 10 -> FALSE
      [] n = 11 -> FALSE
      [] OTHER -> FALSE

StartFromOverride(c, n) == c.StartFromStep > 0 /\ n < c.StartFromStep

\* variant of ShouldSkipStepIn: the override compares with <, one step late
ShouldSkipStepIn_OffByOne(f, c, n) ==
    IF c.StartFromStep > 0 /\ n + 1 < c.StartFromStep THEN TRUE ELSE StepEvidence(f, n)

ShouldSkipStepIn(f, c, n) ==
    IF StartFromOverride(c, n) THEN TRUE ELSE StepEvidence(f, n)

\* Detector.ShouldSkipStep on the current filesystem and Configuration
ShouldSkipStep(n) == ShouldSkipStepIn(fs, cfg, n)

-----------------------------------------------------------------------------
(* install-config.yaml as text and as a document                           *)
(*                                                                         *)
(* Text is a string of symbols, one top-level mapping entry per line:      *)
(*   "n"            newline                                                *)
(*   "a"            any other top-level entry (`apiVersion: v1')           *)
(*   "m"            metadata: a mapping whose name is not empty            *)
(*   "r"            platform: a mapping whose aws.region is a region       *)
(*   "{}"           the empty flow mapping, a document without entries     *)
(*   "c" v          credentialsMode: v, with "M" Manual, "X" another mode  *)
(*   "P" entry      controlPlane: entry                                    *)
(*   "Q" "s"        compute: a value that is not a list                    *)
(*   "Q" "[" e ...  compute: the list of the entries e ...                 *)
(* An entry is "s", a value that is not a mapping, or a machine pool       *)
(*   "{" plat aws type                                                     *)
(* with plat the value of its key platform ("-" no such key, "s" a value   *)
(* that is not a mapping, "{" a mapping), aws the value of platform.aws    *)
(* ("-", "s", "{" a mapping, "{z" a mapping that also has the key zones)   *)
(* and type the value of platform.aws.type ("-" no such key, else the      *)
(* string).                                                                *)

\* longest compute list that is enumerated
MaxPools == 2

DefaultInstanceType == "m5.4xlarge"

\* values of platform.aws.type found in an install-config
GivenTypes == {"", "c5.large"}

NoPool == [platform |-> "absent", aws |-> "absent", zones |-> FALSE, type |-> "absent"]

\* the machine pools: aws is held only by a platform that is a mapping, type
\* and zones only by an aws that is a mapping
Pools ==
    {pl \in [platform : {"absent", "scalar", "map"}, aws : {"absent", "scalar", "map"},
             zones : BOOLEAN, type : {"absent"} \cup GivenTypes] :
        /\ pl.platform # "map" => pl.aws = "absent"
        /\ pl.aws # "map" => (pl.type = "absent" /\ ~pl.zones)}

ScalarEntry == [kind |-> "scalar", pool |-> NoPool]

PoolEntry(pl) == [kind |-> "pool", pool |-> pl]

Entries == {ScalarEntry} \cup {PoolEntry(pl) : pl \in Pools}

NoControlPlane == [kind |-> "absent", pool |-> NoPool]

NoCompute == [kind |-> "absent", pools |-> <<>>]

ScalarCompute == [kind |-> "scalar", pools |-> <<>>]

ListCompute(es) == [kind |-> "list", pools |-> es]

\* the map as declared (`var doc map[string]interface{}'): yaml.Unmarshal
\* leaves it nil when the text holds no document
EmptyDoc ==
    [mode |-> "absent", other |-> FALSE, cp |-> NoControlPlane, compute |-> NoCompute,
     name |-> FALSE, region |-> FALSE, nil |-> TRUE, err |-> FALSE]

ParseError ==
    [mode |-> "absent", other |-> FALSE, cp |-> NoControlPlane, compute |-> NoCompute,
     name |-> FALSE, region |-> FALSE, nil |-> FALSE, err |-> TRUE]

\* the document `{}': a map that was made and has no entry
EmptyMap == [EmptyDoc EXCEPT !.nil = FALSE]

\* the symbols of one machine pool
PoolText(pl) ==
    <<"{",
      CASE pl.platform = "absent" -> "-" [] pl.platform = "scalar" -> "s" [] OTHER -> "{",
      CASE pl.aws = "absent" -> "-" [] pl.aws = "scalar" -> "s"
        [] pl.zones -> "{z" [] OTHER -> "{",
      IF pl.type = "absent" THEN "-" ELSE pl.type>>

EntryText(e) == IF e.kind = "scalar" THEN <<"s">> ELSE PoolText(e.pool)

RECURSIVE EntriesText(_)
EntriesText(es) == IF es = <<>> THEN <<>> ELSE EntryText(Head(es)) \o EntriesText(Tail(es))

\* the machine pool that four symbols denote
PoolOfText(t) ==
    [platform |-> CASE t[2] = "-" -> "absent" [] t[2] = "s" -> "scalar" [] OTHER -> "map",
     aws |-> CASE t[3] = "-" -> "absent" [] t[3] = "s" -> "scalar" [] OTHER -> "map",
     zones |-> t[3] = "{z",
     type |-> IF t[4] = "-" THEN "absent" ELSE t[4]]

IsPoolText(t) ==
    /\ Len(t) = 4
    /\ t[1] = "{"
    /\ t[2] \in {"-", "s", "{"}
    /\ t[3] \in {"-", "s", "{", "{z"}
    /\ t[2] # "{" => t[3] = "-"
    /\ t[3] \notin {"{", "{z"} => t[4] = "-"
    /\ t[4] \notin {"n", "s", "{", "{z", "[", "a", "c", "P", "Q", "M", "X", "r", "m", "{}"}

\* the entries that a string of symbols denotes, or an error
RECURSIVE ParseEntries(_, _)
ParseEntries(t, acc) ==
    IF t = <<>> THEN [err |-> FALSE, entries |-> acc]
    ELSE IF Head(t) = "s" THEN ParseEntries(Tail(t), Append(acc, ScalarEntry))
    ELSE IF Len(t) >= 4 /\ IsPoolText(SubSeq(t, 1, 4))
         THEN ParseEntries(SubSeq(t, 5, Len(t)),
                           Append(acc, PoolEntry(PoolOfText(SubSeq(t, 1, 4)))))
    ELSE [err |-> TRUE, entries |-> <<>>]

\* one mapping entry added to the document read so far
ParseEntry(doc, line) ==
    IF line = <<"a">> /\ ~doc.other THEN [doc EXCEPT !.other = TRUE]
    ELSE IF line = <<"m">> /\ ~doc.name THEN [doc EXCEPT !.name = TRUE]
    ELSE IF line = <<"r">> /\ ~doc.region THEN [doc EXCEPT !.region = TRUE]
    ELSE IF Len(line) = 2 /\ line[1] = "c" /\ line[2] \in {"M", "X"}
            /\ doc.mode = "absent"
         THEN [doc EXCEPT !.mode = line[2]]
    ELSE IF line[1] = "P" /\ doc.cp.kind = "absent"
         THEN LET r == ParseEntries(Tail(line), <<>>)
              IN  IF r.err \/ Len(r.entries) # 1 THEN ParseError
                  ELSE [doc EXCEPT !.cp = r.entries[1]]
    ELSE IF line = <<"Q", "s">> /\ doc.compute.kind = "absent"
         THEN [doc EXCEPT !.compute = ScalarCompute]
    ELSE IF Len(line) >= 2 /\ line[1] = "Q" /\ line[2] = "[" /\ doc.compute.kind = "absent"
         THEN LET r == ParseEntries(SubSeq(line, 3, Len(line)), <<>>)
              IN  IF r.err THEN ParseError
                  ELSE [doc EXCEPT !.compute = ListCompute(r.entries)]
    ELSE ParseError

\* one line of the text added to the document read so far: a blank line
\* adds nothing, an entry makes the map.  `{}' as the first line is a whole
\* document: only the first document is decoded, what follows it is not
\* read; `{}' after an entry is an error
ParseLine(doc, line) ==
    IF doc.err THEN doc
    ELSE IF doc = EmptyMap THEN doc
    ELSE IF line = <<>> THEN doc
    ELSE IF line = <<"{}">> THEN (IF doc.nil THEN EmptyMap ELSE ParseError)
    ELSE LET d == ParseEntry(doc, line)
         IN  IF d.err THEN d ELSE [d EXCEPT !.nil = FALSE]

\* yaml.Unmarshal into map[string]interface{}: the lines of the text, split
\* at newlines; a duplicated key or a line that is no mapping entry is an error
RECURSIVE ParseFrom(_, _, _)
ParseFrom(text, line, doc) ==
    IF text = <<>> THEN ParseLine(doc, line)
    ELSE IF Head(text) = "n" THEN ParseFrom(Tail(text), <<>>, ParseLine(doc, line))
    ELSE ParseFrom(Tail(text), Append(line, Head(text)), doc)

Unmarshal(text) == ParseFrom(text, <<>>, EmptyDoc)

\* yaml.Marshal of the map: keys in sorted order (apiVersion, compute,
\* controlPlane, credentialsMode, metadata, platform), one line each; a map
\* without entries is written as `{}'
Marshal(doc) ==
    IF [doc EXCEPT !.nil = FALSE] = EmptyMap THEN <<"{}", "n">> ELSE
    (IF doc.other THEN <<"a", "n">> ELSE <<>>) \o
    (CASE doc.compute.kind = "absent" -> <<>>
       [] doc.compute.kind = "scalar" -> <<"Q", "s", "n">>
       [] OTHER -> <<"Q", "[">> \o EntriesText(doc.compute.pools) \o <<"n">>) \o
    (IF doc.cp.kind = "absent" THEN <<>> ELSE <<"P">> \o EntryText(doc.cp) \o <<"n">>) \o
    (IF doc.mode = "absent" THEN <<>> ELSE <<"c", doc.mode, "n">>) \o
    (IF doc.name THEN <<"m", "n">> ELSE <<>>) \o
    (IF doc.region THEN <<"r", "n">> ELSE <<>>)

\* strings.TrimSpace of an instance type: "" and " " are the blank ones
TrimSpace(s) == IF s = " " THEN "" ELSE s

\* the instance type step 5 writes
DesiredType(c) ==
    IF TrimSpace(c.InstanceType) = "" THEN DefaultInstanceType ELSE c.InstanceType

\* variant of ensurePoolType: the type is written whatever the pool holds
ensurePoolType_Overwrites(pl, desiredType) ==
    [platform |-> "map", aws |-> "map", zones |-> pl.zones, type |-> desiredType]

\* the closure ensurePoolType of step 5 on one machine pool
ensurePoolType(pl, desiredType) ==
    LET p1 == IF pl.platform # "map"
              THEN [platform |-> "map", aws |-> "absent", zones |-> FALSE, type |-> "absent"]
              ELSE pl
        p2 == IF p1.aws # "map"
              THEN [p1 EXCEPT !.aws = "map", !.zones = FALSE, !.type = "absent"]
              ELSE p1
    IN  IF p2.type = "absent" \/ p2.type = ""
        THEN [p2 EXCEPT !.type = desiredType]
        ELSE p2

EnsureEntry(e, desiredType) ==
    IF e.kind = "pool" THEN PoolEntry(ensurePoolType(e.pool, desiredType)) ELSE e

\* the write `doc["credentialsMode"] = "Manual"' to a nil map: a run-time
\* panic, Execute does not return
NilMapPanic == [panic |-> TRUE]

\* variant of Step5Doc: the compute pools are appended to, not updated in place
Step5Doc_Appends(doc, desiredType) ==
    IF doc.nil THEN NilMapPanic ELSE
    [doc EXCEPT
        !.mode = IF @ = "absent" THEN "M" ELSE @,
        !.cp = EnsureEntry(@, desiredType),
        !.compute = IF @.kind = "list" /\ Len(@.pools) < MaxPools + 2
                    THEN ListCompute(Append(@.pools, PoolEntry(ensurePoolType(NoPool, desiredType))))
                    ELSE @]

\* Step5SetCredentialsMode.Execute on the parsed document
Step5Doc(doc, desiredType) ==
    IF doc.nil THEN NilMapPanic ELSE
    [doc EXCEPT
        !.mode = IF @ = "absent" THEN "M" ELSE @,
        !.cp = EnsureEntry(@, desiredType),
        !.compute = IF @.kind = "list"
                    THEN ListCompute([i \in 1..Len(@.pools) |->
                                         EnsureEntry(@.pools[i], desiredType)])
                    ELSE @]

\* util.GenerateInstallConfig: the text of the install-config it writes, a
\* worker pool and the control plane with platform.aws.type set, no
\* credentialsMode; an empty name or region is written as an empty string
GenerateInstallConfig(clusterName, awsRegion, instanceType) ==
    LET type == IF instanceType = "" THEN DefaultInstanceType ELSE instanceType
        pool == PoolEntry([platform |-> "map", aws |-> "map", zones |-> FALSE,
                           type |-> type])
    IN  Marshal([mode |-> "absent", other |-> TRUE, cp |-> pool,
                 compute |-> ListCompute(<<pool>>), name |-> clusterName # "",
                 region |-> awsRegion # "", nil |-> FALSE, err |-> FALSE])

\* what `openshift-install create install-config' may leave in --dir
InstallConfigSamples ==
    {<<"a", "n">>, <<"c", "X", "n", "a">>, <<"X">>,
     <<"a", "n", "Q", "[", "{", "{", "-", "-", "n", "P", "{", "{", "-", "-", "n", "m", "n",
       "r", "n">>}

-----------------------------------------------------------------------------------------------------------------------------------------------------
(* Steps: Execute of step n on filesystem f under Configuration c.  The    *)
(* value is the set of possible results [ok, fs, calls]: an external tool  *)
(* may succeed, leaving its output where its arguments say, or fail,       *)
(* leaving nothing.  calls lists the external commands that were run: for  *)
(* each the environment injected ("none", "aws" the credentials of the     *)
(* profile, "kubeconfig") and whether it exited with status 0.             *)

Call(env, ok) == [env |-> env, ok |-> ok]

\* a result of an Execute that ran no external command
Result(ok, f) == [ok |-> ok, fs |-> f, calls |-> <<>>, panic |-> FALSE]

\* a result of an Execute that ran the external commands calls
Ran(ok, f, calls) == [ok |-> ok, fs |-> f, calls |-> calls, panic |-> FALSE]

\* an Execute that did not return: the goroutine panicked, the process ends
\* with the files as they were
Panicked(f) == [ok |-> FALSE, fs |-> f, calls |-> <<>>, panic |-> TRUE]

\* util.EnsureDir on a directory held as a DirStates value
EnsureDir(d) == IF d = "absent" THEN "empty" ELSE d

\* util.EnsureDir returns the error of os.MkdirAll: the path is a file
EnsureDirFails(d) == d = "notdir"

\* copyDir(src, dst) after EnsureDir(dst) returns an error: os.ReadDir of the
\* source fails, or the source has entries and os.Open of a source file,
\* os.MkdirAll or os.Create in the destination, or io.Copy fails
CopyDirFails(src, dst) ==
    \/ src \in {"absent", "unreadable", "locked"}
    \/ src = "files" /\ dst \in UnwritableStates

\* the destination after a copyDir that returned nil
CopyDirInto(src, dst) == IF src = "files" THEN "files" ELSE EnsureDir(dst)

Step1Execute(f, c) ==
    LET made == [f EXCEPT !.credreqs = EnsureDir(@)]
    IN  {Ran(TRUE, [made EXCEPT !.credreqs = "files"], <<Call("none", TRUE)>>),
         Ran(FALSE, made, <<Call("none", FALSE)>>)}

Step2Execute(f, c) ==
    LET made == [f EXCEPT !.binDir = TRUE]
    IN  {Ran(TRUE, [made EXCEPT !.binInstall = TRUE], <<Call("none", TRUE)>>),
         Ran(FALSE, made, <<Call("none", FALSE)>>)}

Step3Execute(f, c) ==
    LET extracted == [f EXCEPT !.cwdCcoctl = TRUE]
        both == <<Call("none", TRUE), Call("none", TRUE)>>
    IN  {Ran(FALSE, f, <<Call("none", FALSE)>>),
         Ran(FALSE, f, <<Call("none", TRUE), Call("none", FALSE)>>),
         IF ~f.binDir
         THEN Ran(FALSE, extracted, both)
         ELSE Ran(TRUE, [extracted EXCEPT !.cwdCcoctl = FALSE, !.binCcoctl = TRUE], both)}

Step4Execute(f, c) ==
    {Ran(FALSE, f, <<Call("none", FALSE)>>)} \cup
    {Ran(TRUE, [f EXCEPT !.versionConfig = File(t)], <<Call("none", TRUE)>>) :
        t \in InstallConfigSamples}

Step5Execute(f, c) ==
    IF ~f.versionConfig.exists \/ ~f.versionConfig.readable THEN {Result(FALSE, f)}
    ELSE LET doc == Unmarshal(f.versionConfig.data)
         IN  IF doc.err THEN {Result(FALSE, f)}
             ELSE IF doc.nil THEN {Panicked(f)}
             ELSE {Result(TRUE, [f EXCEPT !.versionConfig =
                                       File(Marshal(Step5Doc(doc, DesiredType(c))))])}

Step6Execute(f, c) ==
    {Ran(FALSE, f, <<Call("none", FALSE)>>),
     Ran(TRUE, [f EXCEPT !.versionManifests = "files", !.versionConfig = NoFile],
         <<Call("none", TRUE)>>)}

\* util.GetAWSEnvVars: the credentials of the profile ("aws"), or an error
\* and no environment to inject ("none")
CredentialEnvs == {"aws", "none"}

\* variant of Step7Execute: an unresolved profile is an error of the step
Step7Execute_CredsFatal(f, c) ==
    IF c.ClusterName = "" \/ c.AwsRegion = "" THEN {Result(FALSE, f)}
    ELSE {Result(FALSE, f),
          Ran(FALSE, f, <<Call("aws", FALSE)>>),
          Ran(TRUE, [f EXCEPT !.clusterDir = TRUE, !.ccoManifests = "files",
                              !.ccoTls = "files"], <<Call("aws", TRUE)>>)}

Step7Execute(f, c) ==
    IF c.ClusterName = "" \/ c.AwsRegion = "" THEN {Result(FALSE, f)}
    ELSE UNION {{Ran(FALSE, f, <<Call(env, FALSE)>>),
                 Ran(TRUE, [f EXCEPT !.clusterDir = TRUE, !.ccoManifests = "files",
                                     !.ccoTls = "files"], <<Call(env, TRUE)>>)} :
                env \in CredentialEnvs}

Step8Execute(f, c) ==
    LET made == [f EXCEPT !.clusterDir = TRUE, !.manifests = EnsureDir(@)]
    IN  IF EnsureDirFails(f.manifests) THEN {Result(FALSE, f)}
        ELSE IF CopyDirFails(f.ccoManifests, made.manifests) THEN {Result(FALSE, made)}
        ELSE {Result(TRUE, [made EXCEPT !.manifests = CopyDirInto(f.ccoManifests, @)])}

\* the copy of step 9 fails on filesystem f: the tls directory cannot be
\* made, or copyDir returns an error
Step9CopyFails(f) == EnsureDirFails(f.tls) \/ CopyDirFails(f.ccoTls, EnsureDir(f.tls))

\* os.RemoveAll(ccoctl-output) removes every entry it can and returns the
\* first error: tls goes, manifests stays when it cannot be listed
RemovedStaging(f) ==
    [f EXCEPT !.ccoTls = "absent",
              !.ccoManifests = IF @ = "unreadable" THEN @ ELSE "absent"]

\* variant of Step9Execute: a failed os.RemoveAll is returned as the error
Step9Execute_CleanupFatal(f, c) ==
    LET made == [f EXCEPT !.clusterDir = TRUE, !.tls = EnsureDir(@)]
        copied == [made EXCEPT !.tls = CopyDirInto(f.ccoTls, @)]
    IN  IF EnsureDirFails(f.tls) THEN {Result(FALSE, f)}
        ELSE IF CopyDirFails(f.ccoTls, made.tls) THEN {Result(FALSE, made)}
        ELSE {Result(RemovedStaging(copied).ccoManifests = "absent", RemovedStaging(copied)),
              Result(FALSE, copied)}

\* variant of Step9Execute: ccoctl-output is removed when copyDir returns,
\* before its error is looked at
Step9Execute_RemovesFirst(f, c) ==
    LET made == [f EXCEPT !.clusterDir = TRUE, !.tls = EnsureDir(@)]
        copied == [made EXCEPT !.tls = CopyDirInto(f.ccoTls, @)]
    IN  IF EnsureDirFails(f.tls) THEN {Result(FALSE, f)}
        ELSE IF CopyDirFails(f.ccoTls, made.tls)
        THEN {Result(FALSE, RemovedStaging(made))}
        ELSE {Result(TRUE, RemovedStaging(copied)), Result(TRUE, copied)}

\* the error of util.EnsureDir and the error of copyDir are returned; after
\* the copy os.RemoveAll(ccoctl-output) removes what it can, or nothing, its
\* error is logged and Execute returns nil
Step9Execute(f, c) ==
    LET made == [f EXCEPT !.clusterDir = TRUE, !.tls = EnsureDir(@)]
        copied == [made EXCEPT !.tls = CopyDirInto(f.ccoTls, @)]
    IN  IF EnsureDirFails(f.tls) THEN {Result(FALSE, f)}
        ELSE IF CopyDirFails(f.ccoTls, made.tls) THEN {Result(FALSE, made)}
        ELSE {Result(TRUE, RemovedStaging(copied)), Result(TRUE, copied)}

Step10Execute(f, c) ==
    UNION {{Ran(FALSE, f, <<Call(env, FALSE)>>),
            Ran(TRUE, [f EXCEPT !.clusterDir = TRUE, !.kubeconfig = TRUE],
                <<Call(env, TRUE)>>)} :
           env \in CredentialEnvs}

\* the two queries of step 11: `oc get secrets' exits 0 or not; the output of
\* the second holds role_arn or web_identity_token_file, or does not
Check1Outcomes == {[ok |-> TRUE], [ok |-> FALSE]}

Check2Outcomes == {[ok |-> TRUE, roles |-> TRUE], [ok |-> TRUE, roles |-> FALSE],
                   [ok |-> FALSE, roles |-> FALSE]}

\* variant of Step11Verify: an error of the second query is a warning
Step11Verify_Advisory(f, q1, q2) ==
    Ran(TRUE, f, <<Call("kubeconfig", q1.ok), Call("kubeconfig", q2.ok)>>)

\* Step11Verify.Execute with the kubeconfig in place and the query outcomes
Step11Verify(f, q1, q2) ==
    Ran(q2.ok, f, <<Call("kubeconfig", q1.ok), Call("kubeconfig", q2.ok)>>)

Step11Execute(f, c) ==
    IF ~FileExists(f.kubeconfig) THEN {Result(FALSE, f)}
    ELSE {Step11Verify(f, q1, q2) : q1 \in Check1Outcomes, q2 \in Check2Outcomes}

\* step.Execute() of the step built by allSteps[n-1].factory
Execute(n, f, c) ==
    CASE n = 1 -> Step1Execute(f, c)
      [] n = 2 -> Step2Execute(f, c)
      [] n = 3 -> Step3Execute(f, c)
      [] n = 4 -> Step4Execute(f, c)
      [] n = 5 -> Step5Execute(f, c)
      [] n = 6 -> Step6Execute(f, c)
      [] n = 7 -> Step7Execute(f, c)
      [] n = 8 -> Step8Execute(f, c)
      [] n = 9 -> Step9Execute(f, c)
      [] n = 10 -> Step10Execute(f, c)
      [] n = 11 -> Step11Execute(f, c)

NoOutcome == [n \in Steps |-> "none"]

-----------------------------------------------------------------------------
(* Summary (package errors): the records of one run, in order              *)

NewSummary == <<>>

AddError(sum, n, phase) ==
    Append(sum, [step |-> n, status |-> "failed", phase |-> phase])

AddSuccess(sum, n) ==
    Append(sum, [step |-> n, status |-> "succeeded", phase |-> "execute"])

HasErrors(sum) == \E i \in 1..Len(sum) : sum[i].status = "failed"

-----------------------------------------------------------------------------
(* runInstall                                                              *)

\* util.SaveInstallMetadata: os.WriteFile fails when the directory is missing
SaveInstallMetadata(f, image) ==
    IF f.clusterDir THEN [f EXCEPT !.installMetadata = image] ELSE f

\* the backup of the cluster's install-config.yaml made after step 5:
\* util.CopyFile opens the source before it creates the destination
BackupInstallConfig(f, c) ==
    IF ~ExtractVersionArchFails(c.ReleaseImage) /\ ContentExists(f.installConfig)
       /\ f.installConfig.readable
    THEN [f EXCEPT !.backup = f.installConfig]
    ELSE f

\* what the loop body does after a successful Execute of step n
AfterSuccess(n, f, c) ==
    IF n = 1 THEN SaveInstallMetadata(f, c.ReleaseImage)
    ELSE IF n = 5 THEN BackupInstallConfig(f, c)
    ELSE f

\* variant of ValidateConfig: the cluster name is not looked at
ValidateConfigFails_ReleaseOnly(c) == c.ReleaseImage = ""

\* config.ValidateConfig
ValidateConfigFails(c) == c.ReleaseImage = "" \/ c.ClusterName = ""

\* os.Exit(1) before the pipeline starts
ExitEarly ==
    /\ pc' = "exited"
    /\ exitCode' = 1
    /\ UNCHANGED <<events, idleVars, lastCalls, resumeAt, fs, cfg, stepNum, summary, executed, outcome>>

\* prerequisites, AWS credentials or the pull secret are not in order
PreCheckFails ==
    /\ pc = "start"
    /\ ExitEarly

ConfigInvalid ==
    /\ pc = "start"
    /\ ValidateConfigFails(cfg)
    /\ ExitEarly

ClusterDirExists ==
    /\ pc = "start"
    /\ ~ValidateConfigFails(cfg)
    /\ DirExists(fs.clusterDir)
    /\ ExitEarly

\* variant of StartPipeline: the cluster directory is not looked at
StartPipeline_NoDirCheck ==
    /\ pc = "start"
    /\ ~ValidateConfigFails(cfg)
    /\ pc' = "loop"
    /\ stepNum' = 1
    /\ summary' = NewSummary
    /\ UNCHANGED <<events, idleVars, lastCalls, resumeAt, fs, cfg, executed, outcome, exitCode>>

\* every check passed: detector, summary and the step list are created
StartPipeline ==
    /\ pc = "start"
    /\ ~ValidateConfigFails(cfg)
    /\ ~DirExists(fs.clusterDir)
    /\ pc' = "loop"
    /\ stepNum' = 1
    /\ summary' = NewSummary
    /\ UNCHANGED <<events, idleVars, lastCalls, resumeAt, fs, cfg, executed, outcome, exitCode>>

InLoop == pc = "loop" /\ stepNum \in Steps

\* variant of ConstructFails: break instead of continue
ConstructFails_Halts ==
    /\ pc = "loop" /\ stepNum \in Steps
    /\ ExtractVersionArchFails(cfg.ReleaseImage)
    /\ summary' = AddError(summary, stepNum, "construct")
    /\ outcome' = [outcome EXCEPT ![stepNum] = "construct_failed"]
    /\ pc' = "summary"
    /\ UNCHANGED <<events, idleVars, lastCalls, resumeAt, fs, cfg, stepNum, executed, exitCode>>

\* the factory returns an error: recorded, next step
ConstructFails ==
    /\ InLoop
    /\ ExtractVersionArchFails(cfg.ReleaseImage)
    /\ summary' = AddError(summary, stepNum, "construct")
    /\ outcome' = [outcome EXCEPT ![stepNum] = "construct_failed"]
    /\ stepNum' = stepNum + 1
    /\ UNCHANGED <<events, idleVars, lastCalls, resumeAt, fs, cfg, pc, executed, exitCode>>

\* a lifecycle event of the logger: log.StartStep, log.CompleteStep,
\* log.FailStep, or the line "Skipping [Step n]"
Event(kind, n) == [kind |-> kind, step |-> n]

\* the detector reports the step as completed: logged, next step
SkipDetected ==
    /\ InLoop
    /\ ~ExtractVersionArchFails(cfg.ReleaseImage)
    /\ ShouldSkipStep(stepNum)
    /\ outcome' = [outcome EXCEPT ![stepNum] = "skipped"]
    /\ stepNum' = stepNum + 1
    /\ events' = Append(events, Event("skipped", stepNum))
    /\ UNCHANGED <<idleVars, lastCalls, resumeAt, fs, cfg, pc, summary, executed, exitCode>>

Runnable ==
    /\ InLoop
    /\ ~ExtractVersionArchFails(cfg.ReleaseImage)
    /\ ~ShouldSkipStep(stepNum)

\* variant of DeclineStep: break instead of continue
DeclineStep_Breaks ==
    /\ pc = "loop" /\ stepNum \in Steps
    /\ ~ExtractVersionArchFails(cfg.ReleaseImage)
    /\ ~ShouldSkipStep(stepNum)
    /\ cfg.ConfirmEachStep
    /\ outcome' = [outcome EXCEPT ![stepNum] = "declined"]
    /\ pc' = "summary"
    /\ events' = Append(events, Event("skipped", stepNum))
    /\ UNCHANGED <<idleVars, lastCalls, resumeAt, fs, cfg, stepNum, summary, executed, exitCode>>

\* variant of DeclineStep: log.StartStep is called before the prompt
DeclineStep_Starts ==
    /\ Runnable
    /\ cfg.ConfirmEachStep
    /\ outcome' = [outcome EXCEPT ![stepNum] = "declined"]
    /\ stepNum' = stepNum + 1
    /\ events' = events \o <<Event("start", stepNum), Event("skipped", stepNum)>>
    /\ UNCHANGED <<idleVars, lastCalls, resumeAt, fs, cfg, pc, summary, executed, exitCode>>

\* the operator answers something else than y: logged, next step
DeclineStep ==
    /\ Runnable
    /\ cfg.ConfirmEachStep
    /\ outcome' = [outcome EXCEPT ![stepNum] = "declined"]
    /\ stepNum' = stepNum + 1
    /\ events' = Append(events, Event("skipped", stepNum))
    /\ UNCHANGED <<idleVars, lastCalls, resumeAt, fs, cfg, pc, summary, executed, exitCode>>

\* Execute returns nil (confirmation disabled or answered y)
ExecuteSucceeds ==
    /\ Runnable
    /\ \E r \in Execute(stepNum, fs, cfg) :
          /\ r.ok
          /\ fs' = AfterSuccess(stepNum, r.fs, cfg)
          /\ lastCalls' = r.calls
    /\ executed' = Append(executed, stepNum)
    /\ summary' = AddSuccess(summary, stepNum)
    /\ outcome' = [outcome EXCEPT ![stepNum] = "succeeded"]
    /\ stepNum' = stepNum + 1
    /\ events' = events \o <<Event("start", stepNum), Event("complete", stepNum)>>
    /\ UNCHANGED <<idleVars, resumeAt, cfg, pc, exitCode>>

\* variant of ExecuteFails: continue instead of break
ExecuteFails_Continues ==
    /\ pc = "loop" /\ stepNum \in Steps
    /\ ~ExtractVersionArchFails(cfg.ReleaseImage)
    /\ ~ShouldSkipStep(stepNum)
    /\ \E r \in Execute(stepNum, fs, cfg) :
          /\ ~r.ok /\ ~r.panic
          /\ fs' = r.fs
          /\ lastCalls' = r.calls
    /\ executed' = Append(executed, stepNum)
    /\ summary' = AddError(summary, stepNum, "execute")
    /\ outcome' = [outcome EXCEPT ![stepNum] = "failed"]
    /\ stepNum' = stepNum + 1
    /\ events' = events \o <<Event("start", stepNum), Event("fail", stepNum)>>
    /\ UNCHANGED <<idleVars, resumeAt, cfg, pc, exitCode>>

\* variant of ExecuteFails: the step is tried again instead of break
ExecuteFails_Retries ==
    /\ pc = "loop" /\ stepNum \in Steps
    /\ ~ExtractVersionArchFails(cfg.ReleaseImage)
    /\ ~ShouldSkipStep(stepNum)
    /\ \E r \in Execute(stepNum, fs, cfg) :
          /\ ~r.ok /\ ~r.panic
          /\ fs' = r.fs
          /\ lastCalls' = r.calls
    /\ executed' = Append(executed, stepNum)
    /\ summary' = AddError(summary, stepNum, "execute")
    /\ outcome' = [outcome EXCEPT ![stepNum] = "failed"]
    /\ events' = events \o <<Event("start", stepNum), Event("fail", stepNum)>>
    /\ UNCHANGED <<idleVars, resumeAt, cfg, pc, stepNum, exitCode>>

\* Execute returns an error: recorded, break
ExecuteFails ==
    /\ Runnable
    /\ \E r \in Execute(stepNum, fs, cfg) :
          /\ ~r.ok /\ ~r.panic
          /\ fs' = r.fs
          /\ lastCalls' = r.calls
    /\ executed' = Append(executed, stepNum)
    /\ summary' = AddError(summary, stepNum, "execute")
    /\ outcome' = [outcome EXCEPT ![stepNum] = "failed"]
    /\ pc' = "summary"
    /\ events' = events \o <<Event("start", stepNum), Event("fail", stepNum)>>
    /\ UNCHANGED <<idleVars, resumeAt, cfg, stepNum, exitCode>>

\* Execute panics: the process ends with the trace of the panic and exit
\* status 2; FailStep, AddError and the summary are not reached
ExecutePanics ==
    /\ Runnable
    /\ \E r \in Execute(stepNum, fs, cfg) :
          /\ r.panic
          /\ fs' = r.fs
          /\ lastCalls' = r.calls
    /\ executed' = Append(executed, stepNum)
    /\ outcome' = [outcome EXCEPT ![stepNum] = "panicked"]
    /\ events' = Append(events, Event("start", stepNum))
    /\ pc' = "exited"
    /\ exitCode' = 2
    /\ UNCHANGED <<idleVars, resumeAt, cfg, stepNum, summary>>

\* the range loop is exhausted
LoopDone ==
    /\ pc = "loop"
    /\ stepNum > NumSteps
    /\ pc' = "summary"
    /\ UNCHANGED <<events, idleVars, lastCalls, resumeAt, fs, cfg, stepNum, summary, executed, outcome, exitCode>>

\* variant of PrintSummaryAndExit: the summary is printed, main returns
PrintSummaryAndExit_NoExit ==
    /\ pc = "summary"
    /\ pc' = "exited"
    /\ exitCode' = 0
    /\ UNCHANGED <<events, idleVars, lastCalls, resumeAt, fs, cfg, stepNum, summary, executed, outcome>>

\* the summary is printed; os.Exit(1) if it has errors, else main returns
PrintSummaryAndExit ==
    /\ pc = "summary"
    /\ pc' = "exited"
    /\ exitCode' = IF HasErrors(summary) THEN 1 ELSE 0
    /\ UNCHANGED <<events, idleVars, lastCalls, resumeAt, fs, cfg, stepNum, summary, executed, outcome>>

\* the merged Configurations enumerated for an invocation of install
\* install is invoked again, with the same release and cluster name, after a
\* run that ended with the failure of step k: with the same arguments or
\* with --start-from-step=k.  Re-invocations of runs without per-step
\* confirmation are followed.
Reinvoke ==
    /\ pc = "exited"
    /\ resumeAt = 0
    /\ ~cfg.ConfirmEachStep
    /\ \E k \in Steps :
          /\ outcome[k] = "failed"
          /\ resumeAt' = k
          /\ cfg' \in {[cfg EXCEPT !.StartFromStep = 0], [cfg EXCEPT !.StartFromStep = k]}
    /\ pc' = "start"
    /\ stepNum' = 0
    /\ summary' = NewSummary
    /\ executed' = <<>>
    /\ outcome' = NoOutcome
    /\ exitCode' = -1
    /\ lastCalls' = <<>>
    /\ fs' = fs
    /\ events' = <<>>
    /\ UNCHANGED idleVars

Configs ==
    [ReleaseImage : {GoodImage, BadImage, ""}, ClusterName : {ClusterName, ""},
     AwsRegion : {"", "us-east-2"}, StartFromStep : 0..MaxStartFrom,
     ConfirmEachStep : BOOLEAN, InstanceType : {DefaultInstanceType}]

\* what may be on disk when install is invoked: nothing, the shared
\* artifacts of the release, the directory of the cluster, or an
\* install-config.yaml of the release that was created empty
InitialFilesystems ==
    {EmptyFS,
     [EmptyFS EXCEPT !.versionConfig = File(<<>>)],
     [EmptyFS EXCEPT !.sharedCredreqs = "files"],
     [EmptyFS EXCEPT !.sharedCredreqs = "files", !.sharedInstall = TRUE,
                     !.sharedCcoctl = TRUE],
     [EmptyFS EXCEPT !.clusterDir = TRUE],
     [EmptyFS EXCEPT !.clusterDir = TRUE, !.installConfig = File(<<"c", "M">>),
                     !.ccoManifests = "files", !.ccoTls = "files"]}

Init ==
    /\ fs \in InitialFilesystems
    /\ cfg \in Configs
    /\ pc = "start"
    /\ stepNum = 0
    /\ summary = NewSummary
    /\ executed = <<>>
    /\ outcome = NoOutcome
    /\ exitCode = -1
    /\ resumeAt = 0
    /\ lastCalls = <<>>
    /\ events = <<>>
    /\ sources = Idle /\ runs = Idle /\ owner = Idle /\ cleanup = Idle

Next ==
    \/ PreCheckFails
    \/ ConfigInvalid
    \/ ClusterDirExists
    \/ StartPipeline
    \/ ConstructFails
    \/ SkipDetected
    \/ DeclineStep
    \/ ExecuteSucceeds
    \/ ExecuteFails
    \/ ExecutePanics
    \/ LoopDone
    \/ PrintSummaryAndExit
    \/ Reinvoke

Spec == Init /\ [][Next]_vars

\* the step numbers in a sequence of step numbers
Range(seq) == {seq[i] : i \in 1..Len(seq)}

\* the run was stopped by break or ran out of steps
LoopLeft == pc \in {"summary", "exited"} /\ stepNum >= 1

\* C5 as stated: with no override, right after Execute of step n in 1..9
\* returned success, ShouldSkipStep(n) is true.
C5_SuccessLeavesMarker ==
    \A n \in 1..9 :
        (cfg.StartFromStep = 0 /\ pc = "loop" /\ stepNum = n + 1
            /\ outcome[n] = "succeeded") => ShouldSkipStep(n)

\* C6: once Execute of step k returned an error, its failure is the last
\* record of the Summary, k is the last step executed, no later step was
\* constructed, skipped, confirmed or executed, and the loop was left.
C6_HaltsAtFirstFailure ==
    \A k \in Steps :
        outcome[k] = "failed" =>
            /\ LoopLeft
            /\ Len(summary) >= 1
            /\ summary[Len(summary)] = [step |-> k, status |-> "failed", phase |-> "execute"]
            /\ \A i \in 1..(Len(summary) - 1) : summary[i].status = "succeeded"
            /\ executed # <<>> /\ executed[Len(executed)] = k
            /\ \A m \in Steps : m > k => outcome[m] = "none" /\ m \notin Range(executed)

\* C6 witness: steps 1 and 2 succeeded, step 3 failed, the run ended.
C6_Witness ==
    /\ pc = "exited"
    /\ outcome[1] = "succeeded" /\ outcome[2] = "succeeded" /\ outcome[3] = "failed"
    /\ Len(summary) = 3
    /\ executed = <<1, 2, 3>>

\* C7 as stated: every step passed without executing it (detector, override,
\* declined confirmation) has a record with status skipped in the Summary.
C7_SkipsRecorded ==
    \A k \in Steps :
        outcome[k] \in {"skipped", "declined"} =>
            \E i \in 1..Len(summary) :
                summary[i].step = k /\ summary[i].status = "skipped"

\* C8 as stated: a run that got past the checks before the pipeline exits non-zero
\* exactly when a step failed to construct or to execute; a run whose steps
\* were all skipped, declined or succeeded exits zero.
C8_ExitStatus ==
    (pc = "exited" /\ stepNum >= 1) =>
        /\ exitCode \in {0, 1}
        /\ exitCode # 0 <=>
              \E k \in Steps : outcome[k] \in {"failed", "construct_failed"}

\* C8 witness: a run with a skipped, a declined and a succeeded step and no
\* failure has exited with status 0.
C8_Witness ==
    /\ pc = "exited" /\ exitCode = 0
    /\ stepNum = NumSteps + 1
    /\ \E k \in Steps : outcome[k] = "skipped"
    /\ \E k \in Steps : outcome[k] = "declined"
    /\ \E k \in Steps : outcome[k] = "succeeded"

\* C9: a declined step k is not executed and records no failure, and the
\* pipeline goes on: the loop is not left before step k+1 was evaluated.
C9_DeclineContinues ==
    \A k \in Steps :
        outcome[k] = "declined" =>
            /\ k \notin Range(executed)
            /\ \A i \in 1..Len(summary) : summary[i].step # k
            /\ stepNum > k
            /\ (k < NumSteps /\ (pc # "loop" \/ stepNum > k + 1)) => outcome[k + 1] # "none"
            /\ (k = NumSteps /\ pc = "exited") =>
                  (exitCode = 0 <=> \A m \in Steps : outcome[m] # "failed")

\* C9 witness: step 7 was declined, step 8 was evaluated and step 10 executed.
C9_Witness ==
    /\ outcome[7] = "declined"
    /\ outcome[8] = "skipped"
    /\ outcome[10] = "succeeded"
    /\ 7 \notin Range(executed)

\* C10: when the cluster directory exists as install starts, the only step
\* the run takes is the exit with status 1: nothing is written, no step is
\* constructed or executed, no record is made.
C10_ExistingClusterRefused ==
    [][(pc = "start" /\ DirExists(fs.clusterDir)) =>
          /\ pc' = "exited"
          /\ exitCode' = 1
          /\ fs' = fs
          /\ outcome' = NoOutcome
          /\ executed' = <<>>
          /\ summary' = NewSummary]_vars

\* C10 witness: a run with a valid Configuration found the cluster directory
\* (with staging output in it) and exited 1 with the filesystem as it was.
C10_Witness ==
    /\ pc = "exited" /\ exitCode = 1
    /\ ~ValidateConfigFails(cfg)
    /\ ~ExtractVersionArchFails(cfg.ReleaseImage)
    /\ fs \in InitialFilesystems
    /\ DirExists(fs.clusterDir)
    /\ fs.ccoManifests = "files"
    /\ outcome = NoOutcome

\* C11 as stated: install re-invoked (same cluster name and release, same
\* arguments or --start-from-step=k) after a run that failed at step k invokes
\* Execute of step k before it ends, unless the operator is asked to confirm
\* or an earlier step of the re-invocation fails.
C11_ResumeReachesFailedStep ==
    \A k \in Steps :
        (/\ resumeAt = k
         /\ pc = "exited"
         /\ stepNum >= 1 \/ DirExists(fs.clusterDir)
         /\ ~cfg.ConfirmEachStep
         /\ \A m \in Steps : m < k => outcome[m] # "failed")
        => k \in Range(executed)


\* the step whose Execute was invoked last in this run, 0 if none was
LastExecuted == IF executed = <<>> THEN 0 ELSE executed[Len(executed)]

\* C16: whenever the copy of ccoctl-output/tls succeeds, Execute of step 9
\* returns success, whether or not the deletion of ccoctl-output succeeds; a
\* run records a failure of step 9 only when the copy failed.
C16_CleanupNonFatal ==
    /\ ~Step9CopyFails(fs) => \A r \in Step9Execute(fs, cfg) : r.ok
    /\ outcome[9] = "failed" => Step9CopyFails(fs)

\* C16 witness: step 9 succeeded, the TLS files are in place and the staging
\* directory is still on disk: its deletion failed.
C16_Witness ==
    /\ LastExecuted = 9 /\ outcome[9] = "succeeded"
    /\ fs.tls = "files"
    /\ fs.ccoTls = "files" /\ fs.ccoManifests = "files"

\* C17 as stated: with the kubeconfig in place, whatever the two queries of
\* step 11 return, Execute returns success and no failure of step 11 is
\* recorded.
C17_VerifyAdvisory ==
    (11 \in Range(executed) /\ FileExists(fs.kubeconfig)) =>
        /\ outcome[11] = "succeeded"
        /\ \A i \in 1..Len(summary) : summary[i].step = 11 => summary[i].status # "failed"

\* C18: Execute of step 7 (cluster name and region given) and of step 10 runs
\* the external tool exactly once, with the credentials of the profile or,
\* when the profile cannot be resolved, with no injected environment, and
\* in both cases returns an error exactly when the tool does.
C18_ProfileFailureNonFatal ==
    \A n \in {7, 10} :
        (LastExecuted = n /\ (n = 7 => (cfg.ClusterName # "" /\ cfg.AwsRegion # ""))) =>
            /\ outcome[n] \in {"succeeded", "failed"}
            /\ Len(lastCalls) = 1
            /\ lastCalls[1].env \in CredentialEnvs
            /\ outcome[n] = "failed" <=> ~lastCalls[1].ok

\* C18 witness: step 7 ran its tool without injected environment and
\* succeeded.
C18_Witness ==
    /\ LastExecuted = 7 /\ outcome[7] = "succeeded"
    /\ cfg.AwsRegion # ""
    /\ lastCalls = <<Call("none", TRUE)>>
    /\ fs.ccoManifests = "files"

\* C19 as stated: once step 1 executed successfully in a run,
\* install-metadata.json is in the cluster directory and holds the release
\* identifier of the run.
C19_MetadataSaved ==
    outcome[1] = "succeeded" =>
        (DirExists(fs.clusterDir) /\ fs.installMetadata = cfg.ReleaseImage)

\* C20 as stated: whenever Execute of step 6 is invoked and install-config.yaml
\* exists, install-config.yaml.backup exists with the same content.
C20_SnapshotBeforeConsume ==
    [][(pc = "loop" /\ stepNum = 6 /\ executed' = Append(executed, 6)
          /\ (fs.installConfig.exists \/ fs.versionConfig.exists)) =>
          LET config == IF fs.installConfig.exists THEN fs.installConfig
                        ELSE fs.versionConfig
          IN  fs.backup.exists /\ fs.backup.data = config.data]_vars

\* util.ExtractClusterNameAndRegion returns a region: the file is read and
\* parsed, and metadata.name and platform.aws.region are not empty
NamesRegion(file) ==
    /\ file.exists /\ file.readable
    /\ ~Unmarshal(file.data).err
    /\ Unmarshal(file.data).name
    /\ Unmarshal(file.data).region

HasRegion(f) == NamesRegion(f.versionConfig) \/ NamesRegion(f.installConfig)

\* C21 as stated: when no region is configured and the generated
\* install-config.yaml names a region, Execute of step 7 invokes the
\* credential tool (with the region of that file) instead of failing.
C21_RegionDerived ==
    (LastExecuted = 7 /\ stepNum = 7 /\ cfg.AwsRegion = "" /\ HasRegion(fs)) =>
        (Len(lastCalls) = 1 /\ outcome[7] # "failed")

\* C25: whenever Execute of a step has been invoked, the cluster name and
\* the release image of the Configuration are non-empty; a run in which one
\* of them is empty has exited with status 1 before the pipeline started, no
\* step constructed or recorded.
C25_RequiredSettings ==
    /\ executed # <<>> => (cfg.ClusterName # "" /\ cfg.ReleaseImage # "")
    /\ (pc # "start" /\ (cfg.ClusterName = "" \/ cfg.ReleaseImage = "")) =>
           (pc = "exited" /\ exitCode = 1 /\ stepNum = 0 /\ executed = <<>>
            /\ outcome = NoOutcome /\ summary = <<>>)

\* a run without a cluster name that has exited, and a run that executed a step
C25_Witness ==
    \/ pc = "exited" /\ cfg.ClusterName = "" /\ cfg.ReleaseImage = GoodImage
    \/ Len(executed) >= 2

\* C26 as stated: a release image from which no version and architecture can
\* be parsed ends the run before the loop: no step is constructed and the
\* summary holds no per-step record.
C26_UnparseableImageFatal ==
    (cfg.ReleaseImage # "" /\ ExtractVersionArchFails(cfg.ReleaseImage)) =>
        (pc \in {"start", "exited"} /\ stepNum = 0 /\ summary = <<>>
         /\ outcome = NoOutcome)

\* C32: when the release image cannot be turned into a version/architecture
\* key, the construction error of every step reached is recorded as a
\* failure against that step, no detector check and no Execute is performed,
\* and the loop does not halt: it ends only after step 11 was constructed.
C32_ConstructErrorRecorded ==
    (pc \in {"loop", "summary", "exited"} /\ stepNum >= 1
     /\ ExtractVersionArchFails(cfg.ReleaseImage)) =>
        /\ executed = <<>>
        /\ events = <<>>
        /\ \A n \in Steps : n < stepNum =>
              /\ outcome[n] = "construct_failed"
              /\ \E i \in 1..Len(summary) :
                    summary[i] = [step |-> n, status |-> "failed", phase |-> "construct"]
        /\ pc # "loop" => stepNum = NumSteps + 1

\* a run with an unparseable image has ended with a record for each step
C32_Witness ==
    /\ pc = "exited" /\ cfg.ReleaseImage = BadImage
    /\ Len(summary) = NumSteps /\ outcome[NumSteps] = "construct_failed"

\* C33: the steps whose Execute was invoked in a run are in strictly
\* ascending order, each at most once and at most 11 in all; the loop is
\* always past the step executed last, so no step is tried again.
C33_AscendingOnce ==
    /\ \A i, j \in 1..Len(executed) : i < j => executed[i] < executed[j]
    /\ Len(executed) <= NumSteps
    /\ (pc = "loop" /\ executed # <<>>) => LastExecuted < stepNum

\* all 11 steps were executed in one run
C33_Witness == executed = [n \in Steps |-> n] /\ pc = "exited"

LifecycleKinds == {"start", "complete", "fail"}

\* C34 as stated: for every step whose Execute was invoked there is exactly one start
\* event, directly followed by the one complete or fail event of that step;
\* a step that was skipped by the detector or the override, or declined,
\* has none of the three events and was not executed.
C34_LifecycleOrdered ==
    /\ \A n \in Range(executed) :
          /\ Cardinality({i \in 1..Len(events) : events[i] = Event("start", n)}) = 1
          /\ Cardinality({i \in 1..Len(events) :
                             events[i].step = n
                             /\ events[i].kind \in {"complete", "fail"}}) = 1
          /\ \E i \in 1..(Len(events) - 1) :
                /\ events[i] = Event("start", n)
                /\ events[i + 1].step = n
                /\ events[i + 1].kind = (IF outcome[n] = "failed" THEN "fail" ELSE "complete")
    /\ \A i \in 1..Len(events) :
          events[i].kind \in LifecycleKinds => events[i].step \in Range(executed)
    /\ \A n \in Steps : outcome[n] \in {"skipped", "declined"} =>
          /\ n \notin Range(executed)
          /\ \A i \in 1..Len(events) :
                events[i].step = n => events[i].kind = "skipped"

\* a run in which a step was skipped, one declined, one completed, one failed
C34_Witness ==
    /\ \E n \in Steps : outcome[n] = "skipped"
    /\ \E n \in Steps : outcome[n] = "declined"
    /\ \E n \in Steps : outcome[n] = "succeeded"
    /\ \E n \in Steps : outcome[n] = "failed"

\* C35 as stated: with no override, when a step n in 1..7 was completed in
\* this run and is detected as complete and a later step returns success,
\* step n is still detected as complete.
C35_DetectionStable ==
    [][\A n \in 1..7 :
          (/\ cfg.StartFromStep = 0
           /\ pc = "loop" /\ stepNum \in Steps /\ n < stepNum
           /\ outcome[n] = "succeeded" /\ StepEvidence(fs, n)
           /\ executed' = Append(executed, stepNum)
           /\ outcome'[stepNum] = "succeeded") =>
              StepEvidence(fs', n)]_vars

\* C36 as stated: ccoctl-output/manifests loses its files only when the
\* cluster's manifests directory holds them.
C36_StagingCopiedBeforeDelete ==
    [][(DirExistsWithFiles(fs.ccoManifests) /\ ~DirExistsWithFiles(fs'.ccoManifests)) =>
          DirExistsWithFiles(fs.manifests)]_vars

\* C40 as stated: a run in which Execute of step 10 was invoked has
\* install-metadata.json, holding the release image, in the cluster
\* directory.
C40_MetadataForDeployed ==
    10 \in Range(executed) => fs.installMetadata = cfg.ReleaseImage

-----------------------------------------------------------------------------
(* Detection scenario: TestShouldSkipStep creates and removes the on-disk  *)
(* marker of each step and asks the detector again.                        *)

\* true occurrence of needle in haystack, by definition
Occurs(haystack, needle) ==
    \E i \in 1..Len(haystack) :
        /\ i + Len(needle) - 1 <= Len(haystack)
        /\ \A j \in 1..Len(needle) : haystack[i + j - 1] = needle[j]

\* the filesystems that result from creating exactly the marker of step n
CreatedMarker(f, n) ==
    CASE n = 1 -> {[f EXCEPT !.sharedCredreqs = "files"]}
      [] n = 2 -> {[f EXCEPT !.sharedInstall = TRUE]}
      [] n = 3 -> {[f EXCEPT !.sharedCcoctl = TRUE]}
      [] n = 4 -> {[f EXCEPT !.installConfig = File(c), !.clusterDir = TRUE] : c \in Contents}
      [] n = 5 -> {[f EXCEPT !.installConfig = File(c), !.clusterDir = TRUE] :
                     c \in {h \in Contents : Occurs(h, Needle)}}
      [] n = 6 -> {[f EXCEPT !.ccoManifests = "files", !.clusterDir = TRUE]}
      [] n = 7 -> {[f EXCEPT !.ccoManifests = "files", !.ccoTls = "files",
                             !.clusterDir = TRUE]}
      [] n = 8 -> {[f EXCEPT !.ccoManifests = d] : d \in {"absent", "empty"} \ 
                     (IF f.clusterDir THEN {} ELSE {"empty"})}
      [] n = 9 -> {[f EXCEPT !.ccoTls = d] : d \in {"absent", "empty"} \ 
                     (IF f.clusterDir THEN {} ELSE {"empty"})}
      [] OTHER -> {}

\* the filesystems that result from removing the marker of step n again
RemovedMarker(f, n) ==
    CASE n = 1 -> {[f EXCEPT !.sharedCredreqs = d] : d \in {"absent", "empty"}}
      [] n = 2 -> {[f EXCEPT !.sharedInstall = FALSE]}
      [] n = 3 -> {[f EXCEPT !.sharedCcoctl = FALSE]}
      [] n = 4 -> {[f EXCEPT !.installConfig = NoFile]}
      [] n = 5 -> {[f EXCEPT !.installConfig = c] :
                     c \in {NoFile} \cup
                           (IF f.clusterDir
                            THEN {File(h) : h \in {t \in Contents : ~Occurs(t, Needle)}}
                            ELSE {})}
      [] n = 6 -> {[f EXCEPT !.ccoManifests = "absent"]}
      [] n = 7 -> {[f EXCEPT !.ccoManifests = "absent"],
                   [f EXCEPT !.ccoTls = "absent"],
                   [f EXCEPT !.ccoManifests = "absent", !.ccoTls = "absent"]}
      [] n = 8 -> {[f EXCEPT !.ccoManifests = "files", !.clusterDir = TRUE]}
      [] n = 9 -> {[f EXCEPT !.ccoTls = "files", !.clusterDir = TRUE]}
      [] OTHER -> {}

CreateMarker(n) ==
    /\ pc = "detect"
    /\ fs' \in CreatedMarker(fs, n)
    /\ UNCHANGED <<events, idleVars, lastCalls, resumeAt, cfg, pc, stepNum, summary, executed, outcome, exitCode>>

RemoveMarker(n) ==
    /\ pc = "detect"
    /\ fs' \in RemovedMarker(fs, n)
    /\ UNCHANGED <<events, idleVars, lastCalls, resumeAt, cfg, pc, stepNum, summary, executed, outcome, exitCode>>

\* the permissions of a marker on disk are taken away: a directory with
\* entries can no longer be listed, a file can no longer be read
MadeUnreadable(f, path) ==
    CASE path = "sharedCredreqs" /\ f.sharedCredreqs = "files" ->
             {[f EXCEPT !.sharedCredreqs = "unreadable"]}
      [] path = "ccoManifests" /\ f.ccoManifests = "files" ->
             {[f EXCEPT !.ccoManifests = "unreadable"]}
      [] path = "ccoTls" /\ f.ccoTls = "files" ->
             {[f EXCEPT !.ccoTls = "unreadable"]}
      [] path = "installConfig" /\ f.installConfig.exists ->
             {[f EXCEPT !.installConfig = UnreadableFile]}
      [] OTHER -> {}

MarkerPaths == {"sharedCredreqs", "ccoManifests", "ccoTls", "installConfig"}

MakeUnreadable(path) ==
    /\ pc = "detect"
    /\ fs' \in MadeUnreadable(fs, path)
    /\ UNCHANGED <<events, idleVars, lastCalls, resumeAt, cfg, pc, stepNum, summary, executed, outcome, exitCode>>

DetectorConfigs ==
    [ReleaseImage : {GoodImage}, ClusterName : {ClusterName}, AwsRegion : {""},
     StartFromStep : 0..MaxStartFrom, ConfirmEachStep : {FALSE},
     InstanceType : {DefaultInstanceType}]

InitDetector ==
    /\ fs = EmptyFS
    /\ cfg \in DetectorConfigs
    /\ pc = "detect"
    /\ stepNum = 0
    /\ summary = <<>>
    /\ executed = <<>>
    /\ outcome = NoOutcome
    /\ exitCode = -1
    /\ resumeAt = 0
    /\ lastCalls = <<>>
    /\ events = <<>>
    /\ sources = Idle /\ runs = Idle /\ owner = Idle /\ cleanup = Idle

NextDetector ==
    \/ \E n \in 1..9 : CreateMarker(n)
    \/ \E n \in 1..9 : RemoveMarker(n)
    \/ \E path \in MarkerPaths : MakeUnreadable(path)

SpecDetector == InitDetector /\ [][NextDetector]_vars

\* none of the artifacts the detector looks for is on disk
NoArtifacts(f) ==
    /\ f.sharedCredreqs = "absent"
    /\ ~f.sharedInstall
    /\ ~f.sharedCcoctl
    /\ ~f.installConfig.exists
    /\ f.ccoManifests = "absent"
    /\ f.ccoTls = "absent"

\* C1: for every step n and every filesystem, a resume override greater than
\* n makes ShouldSkipStep(n) true.
C1_OverrideSkips ==
    \A n \in Steps :
        (cfg.StartFromStep > 0 /\ n < cfg.StartFromStep) => ShouldSkipStep(n)

\* C1 witness: an override is set, steps below it have no evidence on a
\* filesystem that holds markers of other steps, and they are skipped.
C1_Witness ==
    /\ cfg.StartFromStep = 11
    /\ fs.sharedCredreqs = "files"
    /\ fs.ccoTls = "files"
    /\ ~StepEvidence(fs, 2) /\ ShouldSkipStep(2)
    /\ ~StepEvidence(fs, 9) /\ ShouldSkipStep(9)
    /\ ~StepEvidence(fs, 10) /\ ShouldSkipStep(10)

\* C2 as stated: with no artifact on disk, no step at or after the resume
\* point is reported as skipped.
C2_NoArtifactsNoSkip ==
    NoArtifacts(fs) =>
        \A n \in Steps : ~StartFromOverride(cfg, n) => ~ShouldSkipStep(n)

\* C2 amended: with no artifact on disk, a step at or after the resume point
\* is reported as skipped exactly when it is step 8 or step 9, whose predicate
\* is the absence of the non-empty staging directory.
C2_NoArtifactsSkipsOnlyStaging ==
    NoArtifacts(fs) =>
        \A n \in Steps :
            ~StartFromOverride(cfg, n) => (ShouldSkipStep(n) <=> n \in {8, 9})

\* C2 witness: an empty filesystem with resume point 5: step 5 is not
\* skipped, step 8 is.
C2_Witness ==
    /\ NoArtifacts(fs)
    /\ cfg.StartFromStep = 5
    /\ ShouldSkipStep(4)
    /\ ~ShouldSkipStep(5)
    /\ ~ShouldSkipStep(7)
    /\ ShouldSkipStep(8)

\* C3 as stated: with no override, creating exactly the marker of step n in
\* 1..9 makes ShouldSkipStep(n) true and removing it makes it false.
C3_MarkerRoundTrip ==
    [][\A n \in 1..9 :
          cfg.StartFromStep = 0 =>
              /\ CreateMarker(n) => ShouldSkipStepIn(fs', cfg', n)
              /\ RemoveMarker(n) => ~ShouldSkipStepIn(fs', cfg', n)]_vars

\* C4: steps 10 and 11 are skipped only when the override is greater than
\* the step index, whatever is on disk.
C4_DeployVerifyNeverAutoSkipped ==
    \A n \in {10, 11} : ShouldSkipStep(n) => cfg.StartFromStep > n

\* C4 witness: every marker of the staging area is on disk, the override is
\* 11: step 10 is skipped by the override and step 11 is not skipped.
C4_Witness ==
    /\ cfg.StartFromStep = 11
    /\ fs.ccoManifests = "files" /\ fs.ccoTls = "files"
    /\ fs.installConfig.exists
    /\ ShouldSkipStep(10)
    /\ ~ShouldSkipStep(11)

\* what ShouldSkipStep(n) inspects is missing or cannot be stat'ed or read
Uninspectable(f, n) ==
    CASE n = 1 -> f.sharedCredreqs \in {"absent", "unreadable"}
      [] n = 2 -> ~f.sharedInstall
      [] n = 3 -> ~f.sharedCcoctl
      [] n = 4 -> ~f.installConfig.exists
      [] n = 5 -> ~f.installConfig.exists \/ ~f.installConfig.readable
      [] n = 6 -> f.ccoManifests \in {"absent", "unreadable"}
      [] n = 7 -> f.ccoManifests \in {"absent", "unreadable"}
                    \/ f.ccoTls \in {"absent", "unreadable"}
      [] n = 8 -> f.ccoManifests \in {"absent", "unreadable"}
      [] n = 9 -> f.ccoTls \in {"absent", "unreadable"}
      [] OTHER -> FALSE

\* C12 as stated: with no override applying to step n, if the file or
\* directory the predicate of step n inspects is missing or cannot be stat'ed
\* or read, ShouldSkipStep(n) is false.
C12_UnreadableIsIncomplete ==
    \A n \in Steps :
        (~StartFromOverride(cfg, n) /\ Uninspectable(fs, n)) => ~ShouldSkipStep(n)

\* C38 as stated: FileContains(path, needle) is true exactly when the file is
\* readable and needle occurs in its content, the content equal to needle
\* included.
C38_FileContainsExact ==
    FileContains(fs.installConfig, Needle) <=>
        (fs.installConfig.exists /\ fs.installConfig.readable
         /\ Occurs(fs.installConfig.data, Needle))

-----------------------------------------------------------------------------
(* Step 5 on its own: Execute is run, and run again, on an install-config  *)
(* taken from a set of texts, under a set of configured instance types.    *)

\* most runs of step 5 on one file
MaxStep5Runs == 2

\* the entries of the compute lists that are enumerated: the key zones is
\* enumerated for the control plane only
ComputeEntries == {e \in Entries : ~e.pool.zones}

ComputeValues ==
    {NoCompute, ScalarCompute} \cup
    {ListCompute(es) : es \in UNION {[1..k -> ComputeEntries] : k \in 0..MaxPools}}

ControlPlanes == {NoControlPlane} \cup Entries

Docs ==
    [mode : {"absent", "M", "X"}, other : BOOLEAN, cp : ControlPlanes,
     compute : ComputeValues, name : {FALSE}, region : {FALSE}, nil : {FALSE},
     err : {FALSE}]

\* the document written with its keys in the reverse of the sorted order
MarshalReversed(doc) ==
    (IF doc.region THEN <<"r", "n">> ELSE <<>>) \o
    (IF doc.name THEN <<"m", "n">> ELSE <<>>) \o
    (IF doc.mode = "absent" THEN <<>> ELSE <<"c", doc.mode, "n">>) \o
    (IF doc.cp.kind = "absent" THEN <<>> ELSE <<"P">> \o EntryText(doc.cp) \o <<"n">>) \o
    (CASE doc.compute.kind = "absent" -> <<>>
       [] doc.compute.kind = "scalar" -> <<"Q", "s", "n">>
       [] OTHER -> <<"Q", "[">> \o EntriesText(doc.compute.pools) \o <<"n">>) \o
    (IF doc.other THEN <<"a">> ELSE <<>>)

\* the texts step 5 is run on: documents as yaml.Marshal writes them,
\* documents in another key order, and texts that do not parse
Step5Inputs ==
    {Marshal(d) : d \in Docs} \cup
    {MarshalReversed(d) : d \in {e \in Docs : e.compute.kind # "list"}} \cup
    InstallConfigSamples \cup
    {<<"a", "n", "a", "n">>, <<"c", "M", "n", "c", "X", "n">>, <<"P", "{", "-", "{", "-", "n">>,
     <<>>, <<"n">>, <<"{}", "n", "a", "n">>, <<"{}", "n", "{}", "n">>, <<"a", "n", "{}", "n">>,
     <<"{}", "n", "X">>}

Step5Configs ==
    [ReleaseImage : {GoodImage}, ClusterName : {ClusterName}, AwsRegion : {""},
     StartFromStep : {0}, ConfirmEachStep : {FALSE},
     InstanceType : {" ", "t3.small"}]

InitStep5 ==
    /\ fs \in {[EmptyFS EXCEPT !.versionConfig = File(t)] : t \in Step5Inputs}
    /\ cfg \in Step5Configs
    /\ pc = "step5"
    /\ stepNum = 5
    /\ summary = NewSummary
    /\ executed = <<>>
    /\ outcome = NoOutcome
    /\ exitCode = -1
    /\ resumeAt = 0
    /\ lastCalls = <<>>
    /\ events = <<>>
    /\ sources = Idle /\ runs = Idle /\ owner = Idle /\ cleanup = Idle

\* Step5SetCredentialsMode.Execute is invoked on the file
RunStep5 ==
    /\ pc = "step5"
    /\ Len(executed) < MaxStep5Runs
    /\ \E r \in Step5Execute(fs, cfg) :
          /\ fs' = r.fs
          /\ outcome' = [outcome EXCEPT ![5] = IF r.panic THEN "panicked"
                                               ELSE IF r.ok THEN "succeeded" ELSE "failed"]
          /\ lastCalls' = r.calls
    /\ executed' = Append(executed, 5)
    /\ UNCHANGED <<events, idleVars, resumeAt, cfg, pc, stepNum, summary, exitCode>>

\* util.GenerateInstallConfig writes the install-config of the release
\* before step 5 is run
WriteInstallConfig ==
    /\ pc = "step5"
    /\ executed = <<>>
    /\ \E name \in {"", ClusterName}, region \in {"", "us-east-2"},
          type \in {"", "t3.small"} :
          fs' = [fs EXCEPT !.versionConfig = File(GenerateInstallConfig(name, region, type))]
    /\ fs' # fs
    /\ UNCHANGED <<events, idleVars, lastCalls, resumeAt, cfg, pc, stepNum, summary,
                   executed, outcome, exitCode>>

NextStep5 == RunStep5 \/ WriteInstallConfig

SpecStep5 == InitStep5 /\ [][NextStep5]_vars

\* the document in the install-config of filesystem f
ConfigDoc(f) == Unmarshal(f.versionConfig.data)

\* a machine pool whose platform.aws.type is set to an instance type
HasType(e) == e.kind = "pool" /\ e.pool.type \notin {"absent", ""}

\* C13: when Execute of step 5 succeeds, a credentialsMode that was present
\* is unchanged, and in the control plane and in every compute pool a
\* platform.aws.type that was set to an instance type is unchanged, whatever
\* instance type is configured.
C13_PresentValuesKept ==
    [][(RunStep5 /\ outcome'[5] = "succeeded") =>
          LET before == ConfigDoc(fs)
              after == ConfigDoc(fs')
          IN  /\ before.mode # "absent" => after.mode = before.mode
              /\ HasType(before.cp) =>
                    (HasType(after.cp) /\ after.cp.pool.type = before.cp.pool.type)
              /\ before.compute.kind = "list" =>
                    /\ after.compute.kind = "list"
                    /\ Len(after.compute.pools) = Len(before.compute.pools)
                    /\ \A i \in 1..Len(before.compute.pools) :
                          HasType(before.compute.pools[i]) =>
                              /\ HasType(after.compute.pools[i])
                              /\ after.compute.pools[i].pool.type
                                    = before.compute.pools[i].pool.type]_vars

\* C13 witness: step 5 ran with t3.small configured on a file that now holds
\* another credentials mode, another control-plane type, and two compute
\* pools of which one has another type and one the configured type.
C13_Witness ==
    /\ pc = "step5" /\ executed = <<5>> /\ outcome[5] = "succeeded"
    /\ cfg.InstanceType = "t3.small"
    /\ ConfigDoc(fs).mode = "X"
    /\ ConfigDoc(fs).cp.kind = "pool" /\ ConfigDoc(fs).cp.pool.type = "c5.large"
    /\ ConfigDoc(fs).compute.kind = "list" /\ Len(ConfigDoc(fs).compute.pools) = 2
    /\ ConfigDoc(fs).compute.pools[1].pool.type = "c5.large"
    /\ ConfigDoc(fs).compute.pools[2].pool.type = "t3.small"

\* C14: a second Execute of step 5, on the file the first successful Execute
\* wrote and under the same Configuration, succeeds and leaves the file
\* identical.
C14_Idempotent ==
    [][(RunStep5 /\ executed # <<>> /\ outcome[5] = "succeeded") =>
          /\ outcome'[5] = "succeeded"
          /\ fs'.versionConfig = fs.versionConfig]_vars

\* C14 witness: step 5 ran twice on a file in which it had to set the
\* credentials mode and the type of the control plane and of a compute pool.
C14_Witness ==
    /\ pc = "step5" /\ executed = <<5, 5>> /\ outcome[5] = "succeeded"
    /\ cfg.InstanceType = " "
    /\ ConfigDoc(fs).mode = "M"
    /\ ConfigDoc(fs).other
    /\ ConfigDoc(fs).cp.kind = "pool" /\ ConfigDoc(fs).cp.pool.type = DefaultInstanceType
    /\ ConfigDoc(fs).compute.kind = "list" /\ Len(ConfigDoc(fs).compute.pools) = 2
    /\ ConfigDoc(fs).compute.pools[1].pool.type = DefaultInstanceType
    /\ ConfigDoc(fs).compute.pools[2].pool.type = "c5.large"

\* what a machine pool entry holds, but for a platform.aws.type that is absent
\* (or the empty string), is the same after as before
PoolKept(before, after) ==
    /\ after.kind = before.kind
    /\ before.kind = "pool" =>
          /\ before.pool.platform # "absent" => after.pool.platform = before.pool.platform
          /\ before.pool.aws # "absent" => after.pool.aws = before.pool.aws
          /\ after.pool.zones = before.pool.zones
          /\ before.pool.type \notin {"absent", ""} => after.pool.type = before.pool.type

\* C15 as stated: when Execute of step 5 succeeds, every field of the
\* install-config is as before, but for a credentialsMode that was absent and
\* a platform.aws.type of a pool that was absent: an existing value of a
\* pool's platform or platform.aws key, mapping or not, is the same.
C15_OtherFieldsKept ==
    [][(RunStep5 /\ outcome'[5] = "succeeded") =>
          LET before == ConfigDoc(fs)
              after == ConfigDoc(fs')
          IN  /\ after.other = before.other
              /\ before.mode # "absent" => after.mode = before.mode
              /\ PoolKept(before.cp, after.cp)
              /\ after.compute.kind = before.compute.kind
              /\ Len(after.compute.pools) = Len(before.compute.pools)
              /\ \A i \in 1..Len(before.compute.pools) :
                    PoolKept(before.compute.pools[i], after.compute.pools[i])]_vars

-----------------------------------------------------------------------------
(* Step 9 scenario: Step9CopyTLS.Execute on a cluster directory whose      *)
(* staging directories and tls directory are in any state.                 *)

Step9Filesystems ==
    {[EmptyFS EXCEPT !.clusterDir = TRUE, !.ccoManifests = m, !.ccoTls = t, !.tls = d] :
        m \in DirStates, t \in DirStates \cup {"locked"},
        d \in {"absent", "empty", "files"} \cup UnwritableStates}

InitStep9 ==
    /\ fs \in Step9Filesystems
    /\ cfg \in Step5Configs
    /\ pc = "step9"
    /\ stepNum = 9
    /\ summary = NewSummary
    /\ executed = <<>>
    /\ outcome = NoOutcome
    /\ exitCode = -1
    /\ resumeAt = 0
    /\ lastCalls = <<>>
    /\ events = <<>>
    /\ sources = Idle /\ runs = Idle /\ owner = Idle /\ cleanup = Idle

\* Step9CopyTLS.Execute is invoked
RunStep9 ==
    /\ pc = "step9"
    /\ \E r \in Step9Execute(fs, cfg) :
          /\ fs' = r.fs
          /\ outcome' = [outcome EXCEPT ![9] = IF r.ok THEN "succeeded" ELSE "failed"]
          /\ lastCalls' = r.calls
    /\ executed' = Append(executed, 9)
    /\ pc' = "returned"
    /\ UNCHANGED <<events, idleVars, resumeAt, cfg, stepNum, summary, exitCode>>

NextStep9 == RunStep9

SpecStep9 == InitStep9 /\ [][NextStep9]_vars

\* C37: when the copy of step 9 fails, because ccoctl-output/tls cannot be
\* listed or a file of it cannot be opened, or because the tls directory
\* cannot be made or a file cannot be created or written in it, Execute
\* returns an error and leaves ccoctl-output/manifests and ccoctl-output/tls
\* as they were; the staging directories change only in an Execute that
\* returns success, after the whole copy: the TLS files are in tls/.
C37_StagingKeptOnCopyFailure ==
    [][RunStep9 =>
          /\ Step9CopyFails(fs) =>
                /\ outcome'[9] = "failed"
                /\ fs'.ccoManifests = fs.ccoManifests /\ fs'.ccoTls = fs.ccoTls
          /\ outcome'[9] = "failed" => Step9CopyFails(fs)
          /\ (fs'.ccoManifests # fs.ccoManifests \/ fs'.ccoTls # fs.ccoTls) =>
                /\ outcome'[9] = "succeeded"
                /\ ~Step9CopyFails(fs)
                /\ DirExistsWithFiles(fs.ccoTls) => DirExistsWithFiles(fs'.tls)]_vars

\* step 9 failed on a tls directory in which no file can be created, the
\* TLS files and the manifests are still in the staging directory
C37_Witness ==
    /\ pc = "returned" /\ outcome[9] = "failed"
    /\ fs.ccoTls = "files" /\ fs.ccoManifests = "files"
    /\ fs.tls = "readonly"

-----------------------------------------------------------------------------
(* Configuration scenario: loadConfig of the install command on what the   *)
(* operator put in the environment, in the config file and on the command  *)
(* line.  Every value is the text the operator wrote; Unset is a variable, *)
(* key or flag the operator did not give.                                  *)

Unset == "unset"

\* the Configuration, restricted to the cluster name, the runtime flags, a
\* boolean field and the instance type
ZeroConfig ==
    [ClusterName |-> "", PrivateBucket |-> FALSE, StartFromStep |-> 0,
     ConfirmEachStep |-> FALSE, InstanceType |-> ""]

\* os.Getenv: an unset variable reads as the empty string
Getenv(env, key) == IF env[key] = Unset THEN "" ELSE env[key]

\* the integer a decimal numeral denotes (yaml scalar, pflag IntVar)
NumeralValue == ("2" :> 2) @@ ("3" :> 3) @@ ("5" :> 5)

Atoi(t) == IF t \in DOMAIN NumeralValue THEN NumeralValue[t] ELSE 0

\* config.LoadFromEnv: no variable is read for ClusterName and StartFromStep
LoadFromEnv(env) ==
    [ClusterName |-> "",
     PrivateBucket |-> Getenv(env, "OPENSHIFT_STS_PRIVATE_BUCKET") = "true",
     StartFromStep |-> 0,
     ConfirmEachStep |-> Getenv(env, "OPENSHIFT_STS_CONFIRM_EACH_STEP") = "true",
     InstanceType |-> Getenv(env, "OPENSHIFT_STS_INSTANCE_TYPE")]

\* the value yaml.Unmarshal leaves in a field whose key is (not) in the file
YamlString(v) == IF v = Unset THEN "" ELSE v

YamlBool(v) == v = "true"

YamlInt(v) == IF v = Unset THEN 0 ELSE Atoi(v)

\* variant of LoadFromFile: ClusterName carries the tag yaml:"clusterName"
LoadFromFile_ReadsName(keys) ==
    [ClusterName |-> YamlString(keys.clusterName),
     PrivateBucket |-> YamlBool(keys.privateBucket),
     StartFromStep |-> YamlInt(keys.startFromStep),
     ConfirmEachStep |-> YamlBool(keys.confirmEachStep),
     InstanceType |-> YamlString(keys.instanceType)]

\* config.LoadFromFile on a file that parses: the fields by their yaml tags,
\* ClusterName is tagged "-" and a key clusterName is ignored
LoadFromFile(keys) ==
    [ClusterName |-> "",
     PrivateBucket |-> YamlBool(keys.privateBucket),
     StartFromStep |-> YamlInt(keys.startFromStep),
     ConfirmEachStep |-> YamlBool(keys.confirmEachStep),
     InstanceType |-> YamlString(keys.instanceType)]

\* Config.Merge: a field of other replaces that of c when it is not the zero
\* value of its type
Merge(c, other) ==
    [ClusterName |-> IF other.ClusterName # "" THEN other.ClusterName ELSE c.ClusterName,
     PrivateBucket |-> IF other.PrivateBucket THEN TRUE ELSE c.PrivateBucket,
     StartFromStep |-> IF other.StartFromStep > 0 THEN other.StartFromStep
                       ELSE c.StartFromStep,
     ConfirmEachStep |-> IF other.ConfirmEachStep THEN TRUE ELSE c.ConfirmEachStep,
     InstanceType |-> IF other.InstanceType # "" THEN other.InstanceType
                      ELSE c.InstanceType]

\* the variables the flags of install are bound to: the value given on the
\* command line, the default of the flag when it is not given
FlagConfig(flags) ==
    [ClusterName |-> IF flags.clusterName = Unset THEN "" ELSE flags.clusterName,
     PrivateBucket |-> flags.privateBucket = "true",
     StartFromStep |-> IF flags.startFromStep = Unset THEN 0 ELSE Atoi(flags.startFromStep),
     ConfirmEachStep |-> flags.confirmEachStep = "true",
     InstanceType |-> IF flags.instanceType = Unset THEN DefaultInstanceType
                      ELSE flags.instanceType]

\* Config.SetDefaults
SetDefaults(c) ==
    IF c.InstanceType = "" THEN [c EXCEPT !.InstanceType = DefaultInstanceType] ELSE c

\* the config file is merged when it exists and parses
FileLoaded(file) == file.state = "parsed"

\* loadConfig: environment, then file, then flags, then defaults
loadConfig(src) ==
    LET fromEnv == Merge(ZeroConfig, LoadFromEnv(src.env))
        fromFile == IF FileLoaded(src.file) THEN Merge(fromEnv, LoadFromFile(src.file.keys))
                    ELSE fromEnv
    IN  SetDefaults(Merge(fromFile, FlagConfig(src.flags)))

Environments ==
    [OPENSHIFT_STS_CLUSTER_NAME : {Unset, "envname"},
     OPENSHIFT_STS_PRIVATE_BUCKET : {Unset, "true"},
     OPENSHIFT_STS_START_FROM_STEP : {Unset, "3"},
     OPENSHIFT_STS_CONFIRM_EACH_STEP : {Unset, "true"},
     OPENSHIFT_STS_INSTANCE_TYPE : {Unset, "c5.large"}]

NoKeys ==
    [clusterName |-> Unset, privateBucket |-> Unset, startFromStep |-> Unset,
     confirmEachStep |-> Unset, instanceType |-> Unset]

FileKeys ==
    [clusterName : {Unset, "filename"}, privateBucket : {Unset, "true"},
     startFromStep : {Unset, "5"}, confirmEachStep : {Unset, "true"},
     instanceType : {Unset, "t3.small"}]

\* openshift-sts-installer.yaml: not there, not a yaml mapping, or a mapping
ConfigFiles ==
    {[state |-> st, keys |-> NoKeys] : st \in {"absent", "unparsable"}} \cup
    {[state |-> "parsed", keys |-> k] : k \in FileKeys}

CommandLines ==
    [clusterName : {Unset, ClusterName}, privateBucket : {Unset, "true", "false"},
     startFromStep : {Unset, "2"}, confirmEachStep : {Unset, "true"},
     instanceType : {Unset, "m6i.large"}]

InitConfig ==
    /\ sources \in [env : Environments, file : ConfigFiles, flags : CommandLines]
    /\ cfg = ZeroConfig
    /\ pc = "config"
    /\ fs = EmptyFS
    /\ stepNum = 0
    /\ summary = <<>>
    /\ executed = <<>>
    /\ outcome = NoOutcome
    /\ exitCode = -1
    /\ resumeAt = 0
    /\ lastCalls = <<>>
    /\ events = <<>>
    /\ runs = Idle /\ owner = Idle /\ cleanup = Idle

LoadConfig ==
    /\ pc = "config"
    /\ cfg' = loadConfig(sources)
    /\ pc' = "loaded"
    /\ UNCHANGED <<events, sources, runs, owner, cleanup, lastCalls, resumeAt, fs, stepNum,
                   summary, executed, outcome, exitCode>>

\* the numeral yaml.Marshal writes for an integer of a Configuration
Itoa(n) == IF \E t \in DOMAIN NumeralValue : NumeralValue[t] = n
           THEN CHOOSE t \in DOMAIN NumeralValue : NumeralValue[t] = n
           ELSE "0"

\* config.SaveToFile: yaml.Marshal of the Configuration, every field under
\* its tag; ClusterName is tagged "-" and is not written
SaveToFile(c) ==
    [state |-> "parsed",
     keys |-> [clusterName |-> Unset,
               privateBucket |-> IF c.PrivateBucket THEN "true" ELSE "false",
               startFromStep |-> Itoa(c.StartFromStep),
               confirmEachStep |-> IF c.ConfirmEachStep THEN "true" ELSE "false",
               instanceType |-> c.InstanceType]]

\* the loaded Configuration is saved as the config file
SaveConfig ==
    /\ pc = "loaded"
    /\ sources' = [sources EXCEPT !.file = SaveToFile(cfg)]
    /\ pc' = "saved"
    /\ UNCHANGED <<events, cfg, runs, owner, cleanup, lastCalls, resumeAt, fs, stepNum,
                   summary, executed, outcome, exitCode>>

NextConfig == LoadConfig \/ SaveConfig

SpecConfig == InitConfig /\ [][NextConfig]_vars

\* C27: for every environment and config file, the cluster name of the merged
\* Configuration is the value of the flag --cluster-name, empty when the flag
\* is not given.
C27_ClusterNameFromFlagOnly ==
    pc = "loaded" =>
        cfg.ClusterName = (IF sources.flags.clusterName = Unset THEN ""
                           ELSE sources.flags.clusterName)

\* the file and the environment both name a cluster and the flag is not given
C27_Witness ==
    /\ pc = "loaded"
    /\ sources.file.state = "parsed" /\ sources.file.keys.clusterName # Unset
    /\ sources.env.OPENSHIFT_STS_CLUSTER_NAME # Unset
    /\ sources.flags.clusterName = Unset
    /\ cfg.ClusterName = ""

\* C28 as stated: for every environment and config file, StartFromStep and
\* ConfirmEachStep of the merged Configuration are the values of the flags
\* --start-from-step and --confirm-each-step.
C28_RuntimeFlagsFromFlagsOnly ==
    pc = "loaded" =>
        /\ cfg.StartFromStep = FlagConfig(sources.flags).StartFromStep
        /\ cfg.ConfirmEachStep = FlagConfig(sources.flags).ConfirmEachStep

\* the text of field in the highest-priority source that gives it: the flag,
\* else the key of a loaded config file, else the environment variable
Chosen(src, flag, key, var) ==
    IF src.flags[flag] # Unset THEN src.flags[flag]
    ELSE IF FileLoaded(src.file) /\ src.file.keys[key] # Unset THEN src.file.keys[key]
    ELSE src.env[var]

\* C29 as stated: private-bucket and the instance type of the merged
\* Configuration are the values given by the highest-priority source (flags,
\* then file, then environment) in which the operator set the field.
C29_HighestPrioritySourceWins ==
    pc = "loaded" =>
        LET bucket == Chosen(sources, "privateBucket", "privateBucket",
                             "OPENSHIFT_STS_PRIVATE_BUCKET")
            type == Chosen(sources, "instanceType", "instanceType",
                           "OPENSHIFT_STS_INSTANCE_TYPE")
        IN  /\ cfg.PrivateBucket = (bucket = "true")
            /\ cfg.InstanceType = (IF type = Unset THEN DefaultInstanceType ELSE type)

-----------------------------------------------------------------------------
(* Cleanup scenario: runCleanup, from the flags of the cleanup command to  *)
(* its exit.  cleanup holds the flags (name, regionFlag, imageFlag), the   *)
(* region and release image in use, the result of the credential check,    *)
(* the lines the operator typed at the two prompts ("none": not asked) and *)
(* whether the cluster directory was removed.  lastCalls lists the         *)
(* external commands that were run.                                        *)

\* strings.TrimSpace(strings.ToLower(response)) of the line read from stdin;
\* the empty line is what ReadString returns at end of input
NormalizedAnswer ==
    ("y\n" :> "y") @@ ("Y\n" :> "y") @@ (" Yes \n" :> "yes") @@ ("yes\n" :> "yes") @@
    ("n\n" :> "n") @@ ("\n" :> "") @@ ("yes!\n" :> "yes!") @@ ("" :> "")

Answers == DOMAIN NormalizedAnswer

Affirmative(line) == NormalizedAnswer[line] \in {"y", "yes"}

\* util.ReadClusterMetadata and the test of metadata.AWS.Region: the region
\* of metadata.json, empty when the file is missing, unparsable or has none
MetadataRegion(f) ==
    IF f.metadata \in {Absent, "unparsable"} THEN "" ELSE f.metadata

\* the region after the lookup: the flag, else that of metadata.json
ResolvedRegion(f, cl) ==
    IF cl.regionFlag # "" THEN cl.regionFlag ELSE MetadataRegion(f)

\* the release image after the lookup: the flag, else that of
\* install-metadata.json
ResolvedImage(f, cl) ==
    IF cl.imageFlag # "" THEN cl.imageFlag
    ELSE IF f.installMetadata = Absent THEN "" ELSE f.installMetadata

\* an external command of cleanup: what is run, the cluster name and region
\* it is given, the environment injected and whether it exited with status 0
CleanupCall(cmd, bin, cl, env, ok) ==
    [cmd |-> cmd, bin |-> bin, name |-> cl.name, region |-> cl.region, env |-> env,
     ok |-> ok]

\* `openshift-install destroy cluster --dir <clusterDir> --log-level=debug':
\* the directory is that of the cluster name, no region is passed
DestroyCall(cl, env, ok) ==
    [cmd |-> "openshift-install destroy cluster", bin |-> "shared", name |-> cl.name,
     region |-> "", env |-> env, ok |-> ok]

CleanupExit(code) ==
    /\ pc' = "exited"
    /\ exitCode' = code

\* --cluster-name is not given
CleanupNoName ==
    /\ pc = "cleanup"
    /\ cleanup.name = ""
    /\ CleanupExit(1)
    /\ UNCHANGED <<events, cleanup, lastCalls, fs, sources, runs, owner, resumeAt, cfg, stepNum,
                   summary, executed, outcome>>

\* neither --region nor metadata.json gives a region
CleanupNoRegion ==
    /\ pc = "cleanup"
    /\ cleanup.name # ""
    /\ ResolvedRegion(fs, cleanup) = ""
    /\ CleanupExit(1)
    /\ UNCHANGED <<events, cleanup, lastCalls, fs, sources, runs, owner, resumeAt, cfg, stepNum,
                   summary, executed, outcome>>

\* util.ValidateAWSCredentials returns an error
CleanupCredsInvalid ==
    /\ pc = "cleanup"
    /\ cleanup.name # ""
    /\ ResolvedRegion(fs, cleanup) # ""
    /\ cleanup' = [cleanup EXCEPT !.region = ResolvedRegion(fs, cleanup),
                                  !.image = ResolvedImage(fs, cleanup),
                                  !.creds = "invalid"]
    /\ CleanupExit(1)
    /\ UNCHANGED <<events, lastCalls, fs, sources, runs, owner, resumeAt, cfg, stepNum,
                   summary, executed, outcome>>

\* name and region are known and the credentials are valid: the operator is
\* asked to confirm
CleanupPrompt ==
    /\ pc = "cleanup"
    /\ cleanup.name # ""
    /\ ResolvedRegion(fs, cleanup) # ""
    /\ cleanup' = [cleanup EXCEPT !.region = ResolvedRegion(fs, cleanup),
                                  !.image = ResolvedImage(fs, cleanup),
                                  !.creds = "valid"]
    /\ pc' = "confirm"
    /\ UNCHANGED <<events, lastCalls, fs, sources, runs, owner, resumeAt, cfg, stepNum,
                   summary, executed, outcome, exitCode>>

\* variant of CleanupCancelled: the answer is logged and cleanup goes on
CleanupCancelled_GoesOn ==
    /\ pc = "confirm"
    /\ \E line \in Answers :
          /\ ~Affirmative(line)
          /\ cleanup' = [cleanup EXCEPT !.answer = line]
    /\ pc' = "destroy"
    /\ UNCHANGED <<events, lastCalls, fs, sources, runs, owner, resumeAt, cfg, stepNum,
                   summary, executed, outcome, exitCode>>

\* the answer is neither y nor yes: "Cleanup cancelled.", return
CleanupCancelled ==
    /\ pc = "confirm"
    /\ \E line \in Answers :
          /\ ~Affirmative(line)
          /\ cleanup' = [cleanup EXCEPT !.answer = line]
    /\ CleanupExit(0)
    /\ UNCHANGED <<events, lastCalls, fs, sources, runs, owner, resumeAt, cfg, stepNum,
                   summary, executed, outcome>>

CleanupConfirmed ==
    /\ pc = "confirm"
    /\ \E line \in Answers :
          /\ Affirmative(line)
          /\ cleanup' = [cleanup EXCEPT !.answer = line]
    /\ pc' = "destroy"
    /\ UNCHANGED <<events, lastCalls, fs, sources, runs, owner, resumeAt, cfg, stepNum,
                   summary, executed, outcome, exitCode>>

\* openshift-install destroy is run when the release image is known and
\* parses and the state file of the installer is in the cluster directory
DestroyApplies(f, cl) ==
    /\ cl.image # ""
    /\ ~ExtractVersionArchFails(cl.image)
    /\ FileExists(f.stateFile)

\* variant of CleanupDestroy: a failure of destroy ends cleanup with exit 1
CleanupDestroy_FailureExits ==
    /\ pc = "destroy"
    /\ DestroyApplies(fs, cleanup)
    /\ \E env \in CredentialEnvs, ok \in BOOLEAN :
          /\ lastCalls' = Append(lastCalls,
                                 DestroyCall(cleanup, env, ok))
          /\ pc' = IF ok THEN "delete" ELSE "exited"
          /\ exitCode' = IF ok THEN exitCode ELSE 1
    /\ UNCHANGED <<events, cleanup, fs, sources, runs, owner, resumeAt, cfg, stepNum,
                   summary, executed, outcome>>

\* `openshift-install destroy cluster --dir <clusterDir>': a failure is
\* logged and cleanup goes on
CleanupDestroy ==
    /\ pc = "destroy"
    /\ DestroyApplies(fs, cleanup)
    /\ \E env \in CredentialEnvs, ok \in BOOLEAN :
          lastCalls' = Append(lastCalls,
                              DestroyCall(cleanup, env, ok))
    /\ pc' = "delete"
    /\ UNCHANGED <<events, cleanup, fs, sources, runs, owner, resumeAt, cfg, stepNum,
                   summary, executed, outcome, exitCode>>

CleanupSkipDestroy ==
    /\ pc = "destroy"
    /\ ~DestroyApplies(fs, cleanup)
    /\ pc' = "delete"
    /\ UNCHANGED <<events, cleanup, lastCalls, fs, sources, runs, owner, resumeAt, cfg, stepNum,
                   summary, executed, outcome, exitCode>>

\* the ccoctl that is run: that of the shared artifacts when there is one,
\* else the one on PATH
CcoctlPath(f) == IF FileExists(f.sharedCcoctl) THEN "shared" ELSE "PATH"

\* variant of CleanupDeleteFails: the failure is logged and cleanup goes on
\* to the prompt about the cluster directory
CleanupDeleteFails_GoesOn ==
    /\ pc = "delete"
    /\ \E env \in CredentialEnvs :
          lastCalls' = Append(lastCalls,
                              CleanupCall("ccoctl aws delete", CcoctlPath(fs), cleanup,
                                          env, FALSE))
    /\ IF DirExists(fs.clusterDir)
       THEN pc' = "remove" /\ UNCHANGED exitCode
       ELSE CleanupExit(1)
    /\ UNCHANGED <<events, cleanup, fs, sources, runs, owner, resumeAt, cfg, stepNum,
                   summary, executed, outcome>>

\* `ccoctl aws delete --name --region' fails: exit 1
CleanupDeleteFails ==
    /\ pc = "delete"
    /\ \E env \in CredentialEnvs :
          lastCalls' = Append(lastCalls,
                              CleanupCall("ccoctl aws delete", CcoctlPath(fs), cleanup,
                                          env, FALSE))
    /\ CleanupExit(1)
    /\ UNCHANGED <<events, cleanup, fs, sources, runs, owner, resumeAt, cfg, stepNum,
                   summary, executed, outcome>>

\* `ccoctl aws delete --name --region' succeeds: the operator is asked about
\* the cluster directory when there is one
CleanupDeleteSucceeds ==
    /\ pc = "delete"
    /\ \E env \in CredentialEnvs :
          lastCalls' = Append(lastCalls,
                              CleanupCall("ccoctl aws delete", CcoctlPath(fs), cleanup,
                                          env, TRUE))
    /\ IF DirExists(fs.clusterDir)
       THEN pc' = "remove" /\ UNCHANGED exitCode
       ELSE CleanupExit(0)
    /\ UNCHANGED <<events, cleanup, fs, sources, runs, owner, resumeAt, cfg, stepNum,
                   summary, executed, outcome>>

\* os.RemoveAll of the cluster directory
RemoveClusterDir(f) ==
    [f EXCEPT !.clusterDir = FALSE, !.installConfig = NoFile, !.backup = NoFile,
              !.ccoManifests = "absent", !.ccoTls = "absent", !.manifests = "absent",
              !.tls = "absent", !.kubeconfig = FALSE, !.installMetadata = Absent,
              !.metadata = Absent, !.stateFile = FALSE]

\* the operator answers y or yes: the directory is removed, or os.RemoveAll
\* fails and the error is logged
CleanupRemoveDir ==
    /\ pc = "remove"
    /\ \E line \in Answers, removed \in BOOLEAN :
          /\ Affirmative(line)
          /\ cleanup' = [cleanup EXCEPT !.removeAnswer = line, !.removed = removed]
          /\ fs' = IF removed THEN RemoveClusterDir(fs) ELSE fs
    /\ CleanupExit(0)
    /\ UNCHANGED <<events, lastCalls, sources, runs, owner, resumeAt, cfg, stepNum,
                   summary, executed, outcome>>

CleanupKeepDir ==
    /\ pc = "remove"
    /\ \E line \in Answers :
          /\ ~Affirmative(line)
          /\ cleanup' = [cleanup EXCEPT !.removeAnswer = line]
    /\ CleanupExit(0)
    /\ UNCHANGED <<events, lastCalls, fs, sources, runs, owner, resumeAt, cfg, stepNum,
                   summary, executed, outcome>>

\* the flags of the cleanup command
CleanupFlags ==
    [name : {"", ClusterName}, regionFlag : {"", "us-east-2"},
     imageFlag : {"", GoodImage, BadImage}, region : {""}, image : {""},
     creds : {"unchecked"}, answer : {"none"}, removeAnswer : {"none"},
     removed : {FALSE}]

\* what install may have left: nothing, the shared binaries, and a cluster
\* directory with or without metadata.json, install-metadata.json and the
\* state file of the installer
CleanupFilesystems ==
    {[f EXCEPT !.sharedCcoctl = b] :
        b \in BOOLEAN,
        f \in {EmptyFS} \cup
              {[EmptyFS EXCEPT !.clusterDir = TRUE, !.metadata = m,
                               !.installMetadata = im, !.stateFile = st] :
                  m \in {Absent, "unparsable", "", "eu-west-1"},
                  im \in {Absent, GoodImage}, st \in BOOLEAN}}

InitCleanup ==
    /\ cleanup \in CleanupFlags
    /\ fs \in CleanupFilesystems
    /\ pc = "cleanup"
    /\ lastCalls = <<>>
    /\ events = <<>>
    /\ exitCode = -1
    /\ cfg = ZeroConfig
    /\ stepNum = 0
    /\ summary = <<>>
    /\ executed = <<>>
    /\ outcome = NoOutcome
    /\ resumeAt = 0
    /\ sources = Idle /\ runs = Idle /\ owner = Idle

NextCleanup ==
    \/ CleanupNoName
    \/ CleanupNoRegion
    \/ CleanupCredsInvalid
    \/ CleanupPrompt
    \/ CleanupCancelled
    \/ CleanupConfirmed
    \/ CleanupDestroy
    \/ CleanupSkipDestroy
    \/ CleanupDeleteFails
    \/ CleanupDeleteSucceeds
    \/ CleanupRemoveDir
    \/ CleanupKeepDir

SpecCleanup == InitCleanup /\ [][NextCleanup]_vars

\* C30: an external destroy or delete command has been run, or the cluster
\* directory removed, only if --cluster-name was given, a region is known (the
\* flag --region if given, else the region of metadata.json), the credential
\* check passed and the operator answered y or yes; the commands are given
\* that name and region.  Otherwise cleanup ends with nothing deleted.
C30_CleanupGated ==
    (lastCalls # <<>> \/ cleanup.removed) =>
        /\ cleanup.name # ""
        /\ cleanup.region # ""
        /\ cleanup.region = (IF cleanup.regionFlag # "" THEN cleanup.regionFlag
                             ELSE IF cleanup.removed THEN cleanup.region
                             ELSE MetadataRegion(fs))
        /\ cleanup.creds = "valid"
        /\ cleanup.answer \in Answers /\ Affirmative(cleanup.answer)
        /\ \A i \in 1..Len(lastCalls) :
              /\ lastCalls[i].name = cleanup.name
              /\ lastCalls[i].cmd = "ccoctl aws delete" =>
                    lastCalls[i].region = cleanup.region

\* both commands were run, in the region found in metadata.json, after the
\* operator typed " Yes "
C30_Witness ==
    /\ Len(lastCalls) = 2
    /\ cleanup.regionFlag = "" /\ cleanup.region = "eu-west-1"
    /\ cleanup.answer = " Yes \n"

\* the operator confirmed and cleanup is past its two commands
PastDelete ==
    /\ pc \in {"remove", "exited"}
    /\ cleanup.answer \in Answers /\ Affirmative(cleanup.answer)
    /\ ~cleanup.removed

\* the last command run is ccoctl aws delete, run once
DeleteRanLast ==
    /\ lastCalls # <<>>
    /\ lastCalls[Len(lastCalls)].cmd = "ccoctl aws delete"
    /\ Cardinality({i \in 1..Len(lastCalls) : lastCalls[i].cmd = "ccoctl aws delete"}) = 1

DestroyRanFirst ==
    Len(lastCalls) = 2 /\ lastCalls[1].cmd = "openshift-install destroy cluster"

\* C31 as stated: when a release image is known and the state file exists,
\* destroy is run and then ccoctl aws delete, also when destroy failed; when
\* no release image is known only ccoctl aws delete is run.
C31_DestroyThenDelete ==
    PastDelete =>
        /\ DeleteRanLast
        /\ (cleanup.image # "" /\ FileExists(fs.stateFile)) => DestroyRanFirst
        /\ cleanup.image = "" => Len(lastCalls) = 1

\* C31, amended: when a release image is known and a version/architecture
\* key can be derived from it and the state file exists, destroy is run and
\* then ccoctl aws delete, also when destroy failed; in every other case
\* (no image, an image that does not parse, no state file) only ccoctl aws
\* delete is run.
C31_DestroyThenDeleteIfParsed ==
    PastDelete =>
        /\ DeleteRanLast
        /\ IF DestroyApplies(fs, cleanup) THEN DestroyRanFirst ELSE Len(lastCalls) = 1

\* destroy failed and ccoctl aws delete was run after it, the release image
\* taken from install-metadata.json
C31_Witness ==
    /\ DestroyRanFirst /\ ~lastCalls[1].ok
    /\ lastCalls[2].cmd = "ccoctl aws delete"
    /\ cleanup.imageFlag = "" /\ cleanup.image = GoodImage

\* C39: the cluster directory is removed only after ccoctl aws delete
\* succeeded and the operator answered y or yes to the second prompt; when
\* ccoctl aws delete failed, cleanup has exited with status 1 without asking,
\* and the files are as they were.
C39_DirRemovedAfterDelete ==
    /\ cleanup.removed =>
          /\ DeleteRanLast /\ lastCalls[Len(lastCalls)].ok
          /\ cleanup.removeAnswer \in Answers /\ Affirmative(cleanup.removeAnswer)
    /\ ~cleanup.removed => fs \in CleanupFilesystems
    /\ (lastCalls # <<>> /\ lastCalls[Len(lastCalls)].cmd = "ccoctl aws delete"
        /\ ~lastCalls[Len(lastCalls)].ok) =>
          /\ pc = "exited" /\ exitCode = 1
          /\ ~cleanup.removed /\ cleanup.removeAnswer = "none"

\* ccoctl aws delete failed: exit 1, metadata.json and install-metadata.json
\* are still in the cluster directory
C39_Witness ==
    /\ pc = "exited" /\ exitCode = 1
    /\ lastCalls # <<>> /\ ~lastCalls[Len(lastCalls)].ok
    /\ lastCalls[Len(lastCalls)].cmd = "ccoctl aws delete"
    /\ DirExists(fs.clusterDir)
    /\ fs.metadata = "eu-west-1" /\ fs.installMetadata = GoodImage

-----------------------------------------------------------------------------
(* Concurrent scenario: two install runs, A and B, of the same release in  *)
(* the same working directory, B for the cluster of A or for another one.  *)
(* Each run is followed from the cluster-directory check of runInstall to  *)
(* the end of step MaxConcurrentStep, one action per check of the          *)
(* detector, per Execute and, in step 3, per command and per rename.       *)
(* runs holds per run its position (pc, step), its cluster name and the    *)
(* step at which it failed (0: none).  fs holds the files of the release   *)
(* and of the cluster of A; owner holds the files of the other cluster     *)
(* (other), which run extracted ./ccoctl and which moved the ccoctl in the *)
(* bin directory there (cwd, bin), whether a rename replaced the ccoctl    *)
(* the other run had moved there (replaced), which runs wrote under their  *)
(* cluster directory (writers) and whether an external tool failed.        *)

\* the last step the two runs are followed through
MaxConcurrentStep == 7

RunIds == {"A", "B"}

OtherRun(r) == IF r = "A" THEN "B" ELSE "A"

OtherCluster == "other"

\* the fields of the filesystem that lie under artifacts/clusters/<c>
ClusterFields ==
    {"clusterDir", "installConfig", "backup", "ccoManifests", "ccoTls", "manifests",
     "tls", "kubeconfig", "installMetadata", "metadata", "stateFile"}

\* util.GetClusterPath: the filesystem as a run for cluster name sees it
ViewOf(f, o, name) ==
    IF name = ClusterName THEN f
    ELSE [k \in DOMAIN f |-> IF k \in ClusterFields THEN o.other[k] ELSE f[k]]

\* the files of the release and of the cluster of A after a run for cluster
\* name has left its view as nf
SharedAfter(f, nf, name) ==
    IF name = ClusterName THEN nf
    ELSE [k \in DOMAIN f |-> IF k \in ClusterFields THEN f[k] ELSE nf[k]]

\* the files of the other cluster after the same
OtherAfter(o, nf, name) ==
    IF name = ClusterName THEN o.other
    ELSE [k \in DOMAIN nf |-> IF k \in ClusterFields THEN nf[k] ELSE EmptyFS[k]]

\* Execute of step n with result res wrote under artifacts/clusters/<c>: of
\* the steps up to 7, step 7 runs ccoctl with --output-dir under it
ExecuteWroteCluster(n, res) == n = 7 /\ res.ok

\* what the loop does after the success of step n wrote under
\* artifacts/clusters/<c> of filesystem f: install-metadata.json when the
\* directory is there, the backup when install-config.yaml can be copied;
\* a file that is written again with the content it had is written
AfterSuccessWroteCluster(n, f, c) ==
    \/ n = 1 /\ DirExists(f.clusterDir)
    \/ n = 5 /\ BackupInstallConfig([f EXCEPT !.backup = NoFile], c).backup # NoFile

\* the Configuration of a run: loadConfig gives both the same but the name
ConcurrentConfig(name) ==
    [ReleaseImage |-> GoodImage, ClusterName |-> name, AwsRegion |-> "us-east-2",
     StartFromStep |-> 0, ConfirmEachStep |-> FALSE, InstanceType |-> DefaultInstanceType]

RunView(r) == ViewOf(fs, owner, runs[r].cluster)

RunConfig(r) == ConcurrentConfig(runs[r].cluster)

\* the run after step n returned: the next step, the end of the scenario, or
\* the first failure that ends the loop
RunAfter(run, n, ok) ==
    IF ~ok THEN [run EXCEPT !.pc = "failed", !.failed = n]
    ELSE IF n = MaxConcurrentStep THEN [run EXCEPT !.pc = "done"]
    ELSE [run EXCEPT !.pc = "detect", !.step = n + 1]

ConcurrentIdle ==
    UNCHANGED <<events, cfg, pc, stepNum, summary, executed, outcome, exitCode, resumeAt,
                lastCalls, sources, cleanup>>

\* runInstall: the cluster directory exists, exit 1
RunRefused(r) ==
    /\ runs[r].pc = "start"
    /\ DirExists(RunView(r).clusterDir)
    /\ runs' = [runs EXCEPT ![r].pc = "refused"]
    /\ UNCHANGED <<fs, owner>>
    /\ ConcurrentIdle

\* runInstall: the cluster directory does not exist, the loop is entered
RunStarts(r) ==
    /\ runs[r].pc = "start"
    /\ ~DirExists(RunView(r).clusterDir)
    /\ runs' = [runs EXCEPT ![r].pc = "detect", ![r].step = 1]
    /\ UNCHANGED <<fs, owner>>
    /\ ConcurrentIdle

\* the detector reports the step as completed
RunSkips(r) ==
    /\ runs[r].pc = "detect"
    /\ ShouldSkipStepIn(RunView(r), RunConfig(r), runs[r].step)
    /\ runs' = [runs EXCEPT ![r] = RunAfter(@, @.step, TRUE)]
    /\ UNCHANGED <<fs, owner>>
    /\ ConcurrentIdle

\* the detector reports the step as not completed: Execute is called
RunBegins(r) ==
    /\ runs[r].pc = "detect"
    /\ ~ShouldSkipStepIn(RunView(r), RunConfig(r), runs[r].step)
    /\ runs' = [runs EXCEPT ![r].pc = IF runs[r].step = 3 THEN "info" ELSE "execute"]
    /\ UNCHANGED <<fs, owner>>
    /\ ConcurrentIdle

\* the run leaves nf where its view of the filesystem was; wrote tells
\* whether it wrote under its cluster directory, toolFailed whether an
\* external command of the run exited with an error
RunWrites(r, nf, wrote, toolFailed) ==
    /\ fs' = SharedAfter(fs, nf, runs[r].cluster)
    /\ owner' = [owner EXCEPT
          !.other = OtherAfter(owner, nf, runs[r].cluster),
          !.writers = IF wrote THEN @ \cup {r} ELSE @,
          !.toolFailed = @ \/ toolFailed]

\* the steps whose Execute makes a directory before it runs its command
MakesDirFirst == {1, 2}

\* the steps after whose success the loop writes a file of its own
WritesAfter == {1, 5}

\* Execute of steps 1 and 2 up to its command: util.EnsureDir of the
\* directory the command will write to
RunEnsuresDir(r) ==
    /\ runs[r].pc = "execute"
    /\ runs[r].step \in MakesDirFirst
    /\ RunWrites(r, IF runs[r].step = 1 THEN [RunView(r) EXCEPT !.credreqs = EnsureDir(@)]
                    ELSE [RunView(r) EXCEPT !.binDir = TRUE], FALSE, FALSE)
    /\ runs' = [runs EXCEPT ![r].pc = "command"]
    /\ ConcurrentIdle

\* Execute of a step other than 3 returns: its command has run, on the
\* files as they are now
RunExecutes(r) ==
    /\ \/ runs[r].pc = "command"
       \/ runs[r].pc = "execute" /\ runs[r].step \notin MakesDirFirst
    /\ \E res \in Execute(runs[r].step, RunView(r), RunConfig(r)) :
          /\ RunWrites(r, res.fs, ExecuteWroteCluster(runs[r].step, res),
                       \E i \in 1..Len(res.calls) : ~res.calls[i].ok)
          /\ runs' = [runs EXCEPT ![r] =
                          IF res.panic
                          THEN [@ EXCEPT !.pc = "panicked", !.failed = runs[r].step]
                          ELSE IF res.ok /\ @.step \in WritesAfter
                          THEN [@ EXCEPT !.pc = "after"]
                          ELSE RunAfter(@, @.step, res.ok)]
    /\ ConcurrentIdle

\* what the loop writes after Execute returned nil: install-metadata.json
\* after step 1, the backup of install-config.yaml after step 5
RunAfterSuccess(r) ==
    /\ runs[r].pc = "after"
    /\ RunWrites(r, AfterSuccess(runs[r].step, RunView(r), RunConfig(r)),
                 AfterSuccessWroteCluster(runs[r].step, RunView(r), RunConfig(r)), FALSE)
    /\ runs' = [runs EXCEPT ![r] = RunAfter(@, @.step, TRUE)]
    /\ ConcurrentIdle

\* step 3, `oc adm release info --image-for=cloud-credential-operator'
RunCcoImage(r) ==
    /\ runs[r].pc = "info"
    /\ \E ok \in BOOLEAN :
          /\ runs' = [runs EXCEPT ![r] = IF ok THEN [@ EXCEPT !.pc = "extract"]
                                         ELSE RunAfter(@, 3, FALSE)]
          /\ owner' = [owner EXCEPT !.toolFailed = @ \/ ~ok]
    /\ UNCHANGED fs
    /\ ConcurrentIdle

\* step 3, `oc image extract --file=/usr/bin/ccoctl': ./ccoctl is written
RunExtractsCcoctl(r) ==
    /\ runs[r].pc = "extract"
    /\ \E ok \in BOOLEAN :
          /\ runs' = [runs EXCEPT ![r] = IF ok THEN [@ EXCEPT !.pc = "rename"]
                                         ELSE RunAfter(@, 3, FALSE)]
          /\ fs' = IF ok THEN [fs EXCEPT !.cwdCcoctl = TRUE] ELSE fs
          /\ owner' = [owner EXCEPT !.toolFailed = @ \/ ~ok,
                                    !.cwd = IF ok THEN r ELSE @]
    /\ ConcurrentIdle

\* os.Rename succeeds when ./ccoctl and the bin directory exist
RenameFails(f) == ~FileExists(f.cwdCcoctl) \/ ~DirExists(f.binDir)

\* step 3, os.Rename("ccoctl", artifacts/<v>/bin/ccoctl): a file at the
\* destination is replaced
RunRenamesCcoctl(r) ==
    /\ runs[r].pc = "rename"
    /\ ~RenameFails(fs)
    /\ fs' = [fs EXCEPT !.cwdCcoctl = FALSE, !.binCcoctl = TRUE]
    /\ owner' = [owner EXCEPT
          !.cwd = "none",
          !.bin = r,
          !.replaced = @ \/ (FileExists(fs.binCcoctl) /\ owner.bin = OtherRun(r))]
    /\ runs' = [runs EXCEPT ![r] = RunAfter(@, 3, TRUE)]
    /\ ConcurrentIdle

\* step 3, os.Rename returns an error: "failed to move ccoctl to bin
\* directory"
RunRenameFails(r) ==
    /\ runs[r].pc = "rename"
    /\ RenameFails(fs)
    /\ runs' = [runs EXCEPT ![r] = RunAfter(@, 3, FALSE)]
    /\ UNCHANGED <<fs, owner>>
    /\ ConcurrentIdle

NewRun(name) == [pc |-> "start", step |-> 0, cluster |-> name, failed |-> 0]

InitConcurrent ==
    /\ runs \in {[r \in RunIds |-> NewRun(IF r = "A" THEN ClusterName ELSE name)] :
                    name \in {ClusterName, OtherCluster}}
    /\ owner = [other |-> EmptyFS, cwd |-> "none", bin |-> "none", replaced |-> FALSE,
                writers |-> {}, toolFailed |-> FALSE]
    /\ fs \in {f \in InitialFilesystems : ~DirExists(f.clusterDir)}
    /\ cfg = ZeroConfig
    /\ pc = "concurrent"
    /\ stepNum = 0
    /\ summary = <<>>
    /\ executed = <<>>
    /\ outcome = NoOutcome
    /\ exitCode = -1
    /\ resumeAt = 0
    /\ lastCalls = <<>>
    /\ events = <<>>
    /\ sources = Idle /\ cleanup = Idle

NextConcurrent ==
    \E r \in RunIds :
        \/ RunRefused(r)
        \/ RunStarts(r)
        \/ RunSkips(r)
        \/ RunBegins(r)
        \/ RunEnsuresDir(r)
        \/ RunExecutes(r)
        \/ RunAfterSuccess(r)
        \/ RunCcoImage(r)
        \/ RunExtractsCcoctl(r)
        \/ RunRenamesCcoctl(r)
        \/ RunRenameFails(r)

SpecConcurrent == InitConcurrent /\ [][NextConcurrent]_vars

DistinctClusters == runs["A"].cluster # runs["B"].cluster

\* C22 as stated: when two runs for different clusters execute step 3
\* concurrently, the move of ccoctl into the bin directory never replaces a
\* ccoctl that the other run has moved there.
C22_RelocationNeverReplaces ==
    DistinctClusters => ~owner.replaced

\* C23 as stated: of two runs for the same cluster name, at most one gets
\* past the cluster-directory check and writes under artifacts/clusters/<c>.
C23_OneRunPerCluster ==
    ~DistinctClusters => Cardinality(owner.writers) <= 1

\* C24 as stated: when two runs for different clusters run at the same time
\* and every external tool succeeds, neither run fails in the extraction
\* steps 1 to 3.
C24_ExtractionIndependent ==
    (DistinctClusters /\ ~owner.toolFailed) =>
        \A r \in RunIds : runs[r].failed \notin {1, 2, 3}

====
